---- MODULE Spec2Model ----
(***************************************************************************)
(* Model of the invocation engine of async-cni (tokio-cni).                *)
(*                                                                         *)
(* The repository holds two iterations of the engine: src/src/lib.rs       *)
(* (operation + CniInvocationArguments) and src/src/runtime.rs             *)
(* (CniInvocation + CniInvocationOverrides).  The variable `variant`       *)
(* selects the iteration a behaviour runs; every action follows the code   *)
(* of that iteration.                                                      *)
(*                                                                         *)
(* Option<T> is modelled as a sequence of length at most one: <<>> is None *)
(* and <<v>> is Some(v).  A JSON object is a function from key to value.   *)
(***************************************************************************)
EXTENDS Integers, Sequences, FiniteSets, TLC

VARIABLES
    variant,            \* "lib" (src/src/lib.rs) or "runtime" (src/src/runtime.rs)
    operation,          \* CniOperation / the tag of CniInvocation
    invocation,         \* runtime.rs: payload of the CniInvocation value
    arguments,          \* lib.rs: CniInvocationArguments; runtime.rs: CniInvocationOverrides
    target,             \* CniInvocationTarget
    pc,                 \* position of the invoke future
    plugin_iter,        \* the collected plugin_iter (positions in target.plugins)
    idx,                \* position of the for loop in plugin_iter
    invocation_output,  \* the rolling CniInvocationResult
    ret,                \* value returned by invoke
    location,           \* Option: what the locator returned for the current plugin
    environment,        \* environment handed to the last executor call
    stdin,              \* stdin document handed to the last executor call
    cni_output,         \* Option: text returned by the last executor call
    inflight,           \* positions whose executor call has not been classified
    located,            \* history: positions the locator was asked for
    executed,           \* history: positions the executor was called for
    failed,             \* history: Option, the first per-plugin failure
    emitted,            \* history: Option, the Attachment last emitted by a plugin
    since,              \* history: kinds of the outputs returned after `emitted`
    codec,              \* "plugins" (src/src/plugins.rs) or "data" (src/src/data.rs)
    subject,            \* the type parsed and emitted: "PluginList" or "Plugin"
    key_order,          \* iteration order of the serde_json Map of a plugin object
    json_value,         \* Option: the document handed to from_json_value
    from_result,        \* Option: Result of from_json_value(json_value)
    self_value,         \* Option: the value to_json_value is called on
    to_result,          \* Option: Result of self_value.to_json_value()
    round_trip,         \* Option: Result of from_json_value on the emitted document
    invoker,            \* "rootful" (RootfulCniInvoker) or "su" (SuCniInvoker)
    ipc,                \* position of the executor's invoke future
    parent_env,         \* environment of the process that runs the executor
    given_env,          \* `environment` argument of CniInvoker::invoke
    given_stdin,        \* `stdin` argument of CniInvoker::invoke
    password,           \* SuCniInvoker::password
    child_env,          \* environment the child process was spawned with
    child_stdin,        \* the chunks written to the child's stdin, in order
    stdin_open,         \* whether the executor still holds the child's stdin
    waited,             \* history: stdin_open at the time of wait_with_output
    child_output,       \* Option: the Output of the terminated child
    iret,               \* Option: value returned by CniInvoker::invoke
    value_type,         \* the value object whose constructor is called
    raw,                \* the text handed to the constructor
    validated,          \* Option: Result of the constructor
    directory,          \* file names of DirectoryCniLocator::directory_path, in read order
    io_error_at,        \* number of the directory operation that fails (0: none)
    exact_name,         \* DirectoryCniLocator::exact_name
    wanted_type,        \* `plugin_type` argument of CniLocator::locate
    read_dir,           \* Option: number of entries the ReadDir stream has yielded
    path                \* Option: value returned by locate (itself an Option)

vars == <<variant, operation, invocation, arguments, target, pc, plugin_iter,
          idx, invocation_output, ret, location, environment, stdin,
          cni_output, inflight, located, executed, failed, emitted, since,
          codec, subject, key_order, json_value, from_result, self_value,
          to_result, round_trip,
          invoker, ipc, parent_env, given_env, given_stdin, password, child_env,
          child_stdin, stdin_open, waited, child_output, iret,
          value_type, raw, validated,
          directory, io_error_at, exact_name, wanted_type, read_dir, path>>

walkVars == <<variant, operation, invocation, arguments, target, pc, plugin_iter,
              idx, invocation_output, ret, location, environment, stdin,
              cni_output, inflight, located, executed, failed, emitted, since>>

codecVars == <<codec, subject, key_order, json_value, from_result, self_value,
               to_result, round_trip>>

invokerVars == <<invoker, ipc, parent_env, given_env, given_stdin, password,
                 child_env, child_stdin, stdin_open, waited, child_output, iret>>

typesVars == <<value_type, raw, validated>>

locatorVars == <<directory, io_error_at, exact_name, wanted_type, read_dir, path>>

----------------------------------------------------------------------------
(* Bounds *)

MaxPlugins == 3

----------------------------------------------------------------------------
(* Small helpers *)

None == <<>>

Some(v) == <<v>>

IsSome(o) == o # <<>>

Unwrap(o) == o[1]

HasKey(obj, k) == k \in DOMAIN obj

EmptyObject == <<>>

\* serde_json Map::insert: sets the key, replacing any previous value
Insert(obj, k, v) == [x \in (DOMAIN obj) \cup {k} |-> IF x = k THEN v ELSE obj[x]]

RECURSIVE ReverseSeq(_)
ReverseSeq(s) == IF s = <<>> THEN <<>> ELSE Append(ReverseSeq(Tail(s)), Head(s))

\* Option::or
OptionOr(a, b) == IF IsSome(a) THEN a ELSE b

----------------------------------------------------------------------------
(* Text *)

Whitespace == {" ", "\n", "\t"}

RECURSIVE TrimStart(_)
TrimStart(s) == IF s # <<>> /\ Head(s) \in Whitespace THEN TrimStart(Tail(s)) ELSE s

\* str::trim on a text given as a sequence of characters
Trim(s) == ReverseSeq(TrimStart(ReverseSeq(TrimStart(s))))

----------------------------------------------------------------------------
(* Types of src/src/types.rs *)

Operations == {"ADD", "DEL", "CHECK", "VERSION", "STATUS", "GC"}

AttachmentFields == {"interfaces", "ips", "routes", "dns"}

\* What an executor returns: a text that is either a JSON object (obj) or
\* some other text (chars).
ObjectOutput(obj) == [kind |-> "object", obj |-> obj, text |-> <<>>]

TextOutput(chars) == [kind |-> "text", obj |-> EmptyObject, text |-> chars]

\* serde_json::from_str::<CniAttachment>: cniVersion is the only required
\* field; interfaces, ips, routes default to empty, dns to None; unknown keys
\* are ignored.
AttachmentFromStr(out) ==
    IF out.kind = "object" /\ HasKey(out.obj, "cniVersion")
    THEN Some([cni_version |-> out.obj["cniVersion"],
               interfaces |-> IF HasKey(out.obj, "interfaces") THEN out.obj["interfaces"] ELSE <<>>,
               ips |-> IF HasKey(out.obj, "ips") THEN out.obj["ips"] ELSE <<>>,
               routes |-> IF HasKey(out.obj, "routes") THEN out.obj["routes"] ELSE <<>>,
               dns |-> IF HasKey(out.obj, "dns") THEN out.obj["dns"] ELSE None])
    ELSE None

\* serde_json::from_str::<CniVersionObject>: cniVersion and supportedVersions
\* are required.
VersionObjectFromStr(out) ==
    IF out.kind = "object" /\ HasKey(out.obj, "cniVersion") /\ HasKey(out.obj, "supportedVersions")
    THEN Some([cni_version |-> out.obj["cniVersion"],
               supported_versions |-> out.obj["supportedVersions"]])
    ELSE None

\* serde_json::from_str::<CniError>: code and msg are required.
ErrorFromStr(out) ==
    IF out.kind = "object" /\ HasKey(out.obj, "code") /\ HasKey(out.obj, "msg")
    THEN Some([cni_version |-> IF HasKey(out.obj, "cniVersion") THEN Some(out.obj["cniVersion"]) ELSE None,
               code |-> out.obj["code"],
               msg |-> out.obj["msg"],
               details |-> IF HasKey(out.obj, "details") THEN Some(out.obj["details"]) ELSE None])
    ELSE None

\* serde_json::to_value(&CniAttachment): every field of the struct is written
AttachmentToValue(a) ==
    [k \in {"cniVersion", "interfaces", "ips", "routes", "dns"} |->
        CASE k = "cniVersion" -> a.cni_version
          [] k = "interfaces" -> a.interfaces
          [] k = "ips" -> a.ips
          [] k = "routes" -> a.routes
          [] k = "dns" -> a.dns]

----------------------------------------------------------------------------
(* Values the model draws its inputs from *)

PluginTypes == {"p1", "p2"}

NetworkName == "n1"

ListVersion == "1.0.0"

OverrideVersion == "0.4.0"

\* a plugin object {"type": "p1"}
PlainPlugin ==
    [plugin_type |-> "p1", args |-> None, capabilities |-> None,
     plugin_options |-> EmptyObject]

\* a plugin object whose remaining keys include ones the engine also writes
LoadedPlugin ==
    [plugin_type |-> "p2",
     args |-> Some("k" :> "v"),
     capabilities |-> Some("portMappings" :> "true"),
     plugin_options |-> ("bridge" :> "br0") @@ ("name" :> "other")
                        @@ ("cniVersion" :> "9.9.9")
                        @@ ("prevResult" :> ("cniVersion" :> "0.0.1"))]

PluginChoices == {PlainPlugin, LoadedPlugin}

PluginSeqs == UNION {[1..n -> PluginChoices] : n \in 1..MaxPlugins}

Targets ==
    {[kind |-> "PluginList", plugins |-> ps, name |-> NetworkName, cni_version |-> ListVersion] :
        ps \in PluginSeqs}
    \cup
    {[kind |-> "Plugin", plugins |-> <<p>>, name |-> NetworkName, cni_version |-> ListVersion] :
        p \in PluginChoices}

SeedAttachment ==
    [cni_version |-> "1.0.0", interfaces |-> <<"seed0">>, ips |-> <<>>,
     routes |-> <<>>, dns |-> None]

OtherSeedAttachment ==
    [cni_version |-> "1.0.0", interfaces |-> <<"seed1">>, ips |-> <<>>,
     routes |-> <<>>, dns |-> None]

AttachmentDoc1 ==
    ("cniVersion" :> "1.0.0") @@ ("interfaces" :> <<"eth0">>) @@ ("ips" :> <<>>)
    @@ ("routes" :> <<>>)

AttachmentDoc2 ==
    ("cniVersion" :> "1.0.0") @@ ("interfaces" :> <<"eth0">>)
    @@ ("ips" :> <<"10.0.0.2/24">>) @@ ("routes" :> <<>>)

VersionDoc == ("cniVersion" :> "1.0.0") @@ ("supportedVersions" :> <<"0.4.0", "1.0.0">>)

ErrorDoc == ("cniVersion" :> "1.0.0") @@ ("code" :> 7) @@ ("msg" :> "boom")

ErrorDocNoVersion == ("code" :> 5) @@ ("msg" :> "x")

BareDoc == ("cniVersion" :> "1.0.0") @@ ("foo" :> "bar")

SupportedOnlyDoc == ("supportedVersions" :> <<"1.0.0">>)

Outputs ==
    {TextOutput(<<>>), TextOutput(<<" ", "\n">>), TextOutput(<<" ", "o", "k">>)}
    \cup {ObjectOutput(d) : d \in {AttachmentDoc1, AttachmentDoc2, VersionDoc, ErrorDoc,
                                    ErrorDocNoVersion, BareDoc, SupportedOnlyDoc}}

NoFields ==
    [container_id |-> None, net_ns |-> None, interface_name |-> None, paths |-> None,
     attachment |-> None, valid_attachments |-> None, cni_version |-> None]

BaseFields ==
    [NoFields EXCEPT !.container_id = Some("c1"), !.net_ns = Some("/var/run/netns/t"),
                     !.interface_name = Some("eth0"),
                     !.paths = Some(<<"/opt/cni", "/usr/libexec/cni">>)]

----------------------------------------------------------------------------
(* src/src/runtime.rs: CniInvocation -> CniInvocationOverrides *)

\* impl From<CniInvocation> for CniInvocationOverrides
OverridesFrom(op, inv) ==
    CASE op = "ADD" ->
            [NoFields EXCEPT !.container_id = inv.container_id, !.net_ns = inv.net_ns,
                             !.interface_name = inv.interface_name, !.paths = inv.paths]
      [] op = "DEL" ->
            [NoFields EXCEPT !.container_id = inv.container_id, !.net_ns = inv.net_ns,
                             !.interface_name = inv.interface_name,
                             !.attachment = inv.attachment, !.paths = inv.paths]
      [] op = "CHECK" ->
            [NoFields EXCEPT !.container_id = inv.container_id, !.net_ns = inv.net_ns,
                             !.interface_name = inv.interface_name,
                             !.attachment = inv.attachment]
      [] op = "GC" ->
            [NoFields EXCEPT !.paths = inv.paths, !.valid_attachments = inv.valid_attachments]
      [] OTHER -> NoFields

\* CniInvocationOverrides::merge_with
MergeWith(self, other) ==
    [f \in DOMAIN self |-> IF IsSome(other[f]) THEN other[f] ELSE self[f]]

\* The record invoke_plugin reads its arguments from: lib.rs reads
\* invocation_arguments, runtime.rs the merged overrides.
EffectiveArguments(v, op, inv, args) ==
    IF v = "lib" THEN args ELSE MergeWith(OverridesFrom(op, inv), args)

----------------------------------------------------------------------------
(* invoke: the order of the walk *)

Positions(plugins) == [i \in 1..Len(plugins) |-> i]

\* the walk without the Delete arm: declared order for every operation
PluginIterAlwaysForward(op, plugins) == Positions(plugins)

\* the Delete arm also taken for Check
PluginIterCheckReversed(op, plugins) ==
    IF op \in {"DEL", "CHECK"} THEN ReverseSeq(Positions(plugins)) ELSE Positions(plugins)

\* plugin_iter of invoke: reversed for Delete, declared order otherwise
PluginIter(op, plugins) ==
    IF op = "DEL" THEN ReverseSeq(Positions(plugins)) ELSE Positions(plugins)

----------------------------------------------------------------------------
(* invoke_plugin: environment and stdin *)

RECURSIVE JoinColon(_)
\* paths.join(":")
JoinColon(paths) ==
    IF paths = <<>> THEN <<>>
    ELSE IF Len(paths) = 1 THEN <<paths[1]>>
    ELSE <<paths[1], ":">> \o JoinColon(Tail(paths))

\* the environment built without the `!paths.is_empty()` test
BuildEnvironmentPathOfEmptyList(op, args) ==
    LET e0 == ("CNI_COMMAND" :> op)
        e1 == IF IsSome(args.container_id)
              THEN Insert(e0, "CNI_CONTAINERID", Unwrap(args.container_id)) ELSE e0
        e2 == IF IsSome(args.net_ns)
              THEN Insert(e1, "CNI_NETNS", Unwrap(args.net_ns)) ELSE e1
        e3 == IF IsSome(args.interface_name)
              THEN Insert(e2, "CNI_IFNAME", Unwrap(args.interface_name)) ELSE e2
        e4 == IF IsSome(args.paths)
              THEN Insert(e3, "CNI_PATH", JoinColon(Unwrap(args.paths))) ELSE e3
    IN  e4

BuildEnvironment(op, args) ==
    LET e0 == ("CNI_COMMAND" :> op)
        e1 == IF IsSome(args.container_id)
              THEN Insert(e0, "CNI_CONTAINERID", Unwrap(args.container_id)) ELSE e0
        e2 == IF IsSome(args.net_ns)
              THEN Insert(e1, "CNI_NETNS", Unwrap(args.net_ns)) ELSE e1
        e3 == IF IsSome(args.interface_name)
              THEN Insert(e2, "CNI_IFNAME", Unwrap(args.interface_name)) ELSE e2
        e4 == IF IsSome(args.paths) /\ Unwrap(args.paths) # <<>>
              THEN Insert(e3, "CNI_PATH", JoinColon(Unwrap(args.paths))) ELSE e3
    IN  e4

\* serde_json::to_value(&CniValidAttachment)
ValidAttachmentToValue(va) ==
    ("containerID" :> va.container_id) @@ ("ifname" :> va.interface_name)

\* the previous_attachment argument invoke_plugin hands to derive_stdin
PreviousAttachment(v, args, output) ==
    IF v = "lib" THEN output.attachment
    ELSE OptionOr(args.attachment, output.attachment)

\* Map::entry(k).or_insert(v): an existing value is kept
InsertIfAbsent(obj, k, v) == IF HasKey(obj, k) THEN obj ELSE Insert(obj, k, v)

\* derive_stdin with type, name and cniVersion set only where plugin_options
\* does not already hold them
DeriveStdinKeepingOptions(v, plugin, args, tgt, previous_attachment) ==
    LET m0 == plugin.plugin_options
        m1 == InsertIfAbsent(m0, "type", plugin.plugin_type)
        m2 == InsertIfAbsent(m1, "name", tgt.name)
        m3 == InsertIfAbsent(m2, "cniVersion",
                     IF IsSome(args.cni_version) THEN Unwrap(args.cni_version)
                     ELSE tgt.cni_version)
        m4 == IF IsSome(plugin.capabilities)
              THEN Insert(m3, "runtimeConfig", Unwrap(plugin.capabilities)) ELSE m3
        m5 == IF IsSome(plugin.args)
              THEN Insert(m4, "args", Unwrap(plugin.args)) ELSE m4
        m6 == IF IsSome(previous_attachment)
              THEN Insert(m5, "prevResult", AttachmentToValue(Unwrap(previous_attachment)))
              ELSE m5
    IN  m6

DeriveStdin(v, plugin, args, tgt, previous_attachment) ==
    LET m0 == plugin.plugin_options
        m1 == Insert(m0, "type", plugin.plugin_type)
        m2 == Insert(m1, "name", tgt.name)
        m3 == Insert(m2, "cniVersion",
                     IF IsSome(args.cni_version) THEN Unwrap(args.cni_version)
                     ELSE tgt.cni_version)
        m4 == IF IsSome(plugin.capabilities)
              THEN Insert(m3, "runtimeConfig", Unwrap(plugin.capabilities)) ELSE m3
        m5 == IF IsSome(plugin.args)
              THEN Insert(m4, "args", Unwrap(plugin.args)) ELSE m4
        m6 == IF IsSome(previous_attachment)
              THEN Insert(m5, "prevResult", AttachmentToValue(Unwrap(previous_attachment)))
              ELSE m5
        m7 == IF v = "runtime" /\ IsSome(args.valid_attachments)
              THEN Insert(m6, "cni.dev/valid-attachments",
                          [i \in 1..Len(Unwrap(args.valid_attachments)) |->
                              ValidAttachmentToValue(Unwrap(args.valid_attachments)[i])])
              ELSE m6
    IN  m7

----------------------------------------------------------------------------
(* add_to_invocation_output *)

Error(kind, value) == [tag |-> "Err", kind |-> kind, value |-> value]

Ok(value) == [tag |-> "Ok", kind |-> "", value |-> value]

Pending == [tag |-> "Pending", kind |-> "", value |-> <<>>]

\* the branches without the `cni_output.trim().is_empty()` test
ClassifyRestWithoutEmptyTest(out, output) ==
    IF IsSome(ErrorFromStr(out))
    THEN [output |-> output, err |-> Some(Error("PluginProducedError", Unwrap(ErrorFromStr(out))))]
    ELSE [output |-> output, err |-> Some(Error("PluginProducedUnrecognizableOutput", out))]

\* the last two branches, shared by both iterations
ClassifyRest(out, output) ==
    IF IsSome(ErrorFromStr(out))
    THEN [output |-> output, err |-> Some(Error("PluginProducedError", Unwrap(ErrorFromStr(out))))]
    ELSE IF out.kind = "text" /\ Trim(out.text) = <<>>
    THEN [output |-> output, err |-> None]
    ELSE [output |-> output, err |-> Some(Error("PluginProducedUnrecognizableOutput", out))]

\* lib.rs: Attachment first, then VersionObject pushed on a Vec
AddToInvocationOutputLib(out, plugin, output) ==
    IF IsSome(AttachmentFromStr(out))
    THEN [output |-> [output EXCEPT !.attachment = AttachmentFromStr(out)], err |-> None]
    ELSE IF IsSome(VersionObjectFromStr(out))
    THEN [output |-> [output EXCEPT !.version_objects =
                         Append(@, Unwrap(VersionObjectFromStr(out)))],
          err |-> None]
    ELSE ClassifyRest(out, output)

\* runtime.rs: VersionObject first, inserted under the plugin's type, then
\* Attachment
AddToInvocationOutputRuntime(out, plugin, output) ==
    IF IsSome(VersionObjectFromStr(out))
    THEN [output |-> [output EXCEPT !.version_objects =
                         Insert(@, plugin.plugin_type, Unwrap(VersionObjectFromStr(out)))],
          err |-> None]
    ELSE IF IsSome(AttachmentFromStr(out))
    THEN [output |-> [output EXCEPT !.attachment = AttachmentFromStr(out)], err |-> None]
    ELSE ClassifyRest(out, output)

AddToInvocationOutput(v, out, plugin, output) ==
    IF v = "lib" THEN AddToInvocationOutputLib(out, plugin, output)
    ELSE AddToInvocationOutputRuntime(out, plugin, output)

----------------------------------------------------------------------------
(* The walk of invoke as a state machine.  The future suspends at the two  *)
(* awaits of invoke_plugin: locator.locate and invoker.invoke.             *)

EmptyResult == [attachment |-> None, version_objects |-> <<>>]

\* an output that is an Attachment by the schema of the specification:
\* cniVersion and at least one of interfaces, ips, routes, dns
IsAttachmentShaped(out) ==
    /\ out.kind = "object"
    /\ HasKey(out.obj, "cniVersion")
    /\ (DOMAIN out.obj) \cap AttachmentFields # {}

\* an output that is a VersionObject by the schema of the specification
IsVersionShaped(out) ==
    /\ out.kind = "object"
    /\ {"cniVersion", "supportedVersions"} \subseteq DOMAIN out.obj
    /\ (DOMAIN out.obj) \cap AttachmentFields = {}

\* an output that is a PluginError {"cniVersion": V, "code": C, "msg": M}
IsErrorShaped(out) ==
    /\ out.kind = "object"
    /\ {"cniVersion", "code", "msg"} \subseteq DOMAIN out.obj
    /\ (DOMAIN out.obj) \cap (AttachmentFields \cup {"supportedVersions"}) = {}

IsBlank(out) == out.kind = "text" /\ \A i \in 1..Len(out.text) : out.text[i] \in Whitespace

OutputShape(out) ==
    CASE IsAttachmentShaped(out) -> "attachment"
      [] IsVersionShaped(out) -> "version"
      [] IsBlank(out) -> "blank"
      [] OTHER -> "other"

CurrentPosition == plugin_iter[idx]

CurrentPlugin == target.plugins[CurrentPosition]

\* the executor call spawned and not awaited: the loop goes on at once
InvokerNotAwaited(i) == [pc |-> "locate", idx |-> i + 1]

\* `invoker.invoke(..).await`: the future stays at this plugin until the
\* executor returns
InvokerAwait(i) == [pc |-> "invoker", idx |-> i]

\* the result of invoke_plugin dropped instead of propagated with `?`
TryIgnoringErr(res, i) == [pc |-> "locate", idx |-> i + 1, ret |-> Pending]

\* an Err answered by running the same plugin again instead of returning
TryAgain(res, i) ==
    IF IsSome(res) THEN [pc |-> "locate", idx |-> i, ret |-> Pending]
    ELSE [pc |-> "locate", idx |-> i + 1, ret |-> Pending]

\* `invoke_plugin(..).await?` in the loop of invoke: an Err leaves invoke at
\* once, Ok moves to the next plugin
Try(res, i) ==
    IF IsSome(res) THEN [pc |-> "done", idx |-> i, ret |-> Unwrap(res)]
    ELSE [pc |-> "locate", idx |-> i + 1, ret |-> Pending]

\* a locator answer of None taken for a path: the executor is called anyway
LocateOrFailNever(loc) == None

\* `match locator.locate(..).await { Some(location) => location, None =>
\* return Err(PluginNotFoundByLocator) }`: the error of the step, if any
LocateOrFail(loc) ==
    IF IsSome(loc) THEN None ELSE Some(Error("PluginNotFoundByLocator", <<>>))

\* the kinds of std::io::Error the executor is made to fail with
IoErrors == {"NotFound", "PermissionDenied"}

\* the cause of the executor's failure replaced by a fixed one
InvokerFailedLosingCause(cause) == Error("InvokerFailed", "Other")

\* `.map_err(CniInvocationError::InvokerFailed)` on the executor's result
InvokerFailed(cause) == Error("InvokerFailed", cause)

\* no document is being parsed or emitted
CodecIdle ==
    /\ codec = "plugins"
    /\ subject = "PluginList"
    /\ key_order = <<>>
    /\ json_value = None
    /\ from_result = None
    /\ self_value = None
    /\ to_result = None
    /\ round_trip = None

\* no executor has been called outside the walk
InvokerIdle ==
    /\ invoker = "rootful"
    /\ ipc = "idle"
    /\ parent_env = EmptyObject
    /\ given_env = EmptyObject
    /\ given_stdin = <<>>
    /\ password = <<>>
    /\ child_env = EmptyObject
    /\ child_stdin = <<>>
    /\ stdin_open = FALSE
    /\ waited = None
    /\ child_output = None
    /\ iret = None

TypesIdle ==
    /\ value_type = "CniName"
    /\ raw = <<>>
    /\ validated = None

LocatorIdle ==
    /\ directory = <<>>
    /\ io_error_at = 0
    /\ exact_name = TRUE
    /\ wanted_type = <<>>
    /\ read_dir = None
    /\ path = None

Init ==
    /\ variant \in {"lib", "runtime"}
    /\ operation \in Operations
    /\ target \in Targets
    /\ \E seed \in {None, Some(SeedAttachment)}, own \in {None, Some(OtherSeedAttachment)} :
          IF variant = "lib"
          THEN /\ own = None
               /\ invocation = NoFields
               /\ arguments = [BaseFields EXCEPT !.attachment = seed]
          ELSE /\ (own # None => operation \in {"DEL", "CHECK"})
               /\ invocation = [BaseFields EXCEPT !.attachment = own]
               /\ arguments = [NoFields EXCEPT !.attachment = seed]
    /\ pc = "start"
    /\ plugin_iter = <<>>
    /\ idx = 0
    /\ invocation_output = EmptyResult
    /\ ret = Pending
    /\ location = None
    /\ environment = EmptyObject
    /\ stdin = EmptyObject
    /\ cni_output = None
    /\ inflight = {}
    /\ located = <<>>
    /\ executed = <<>>
    /\ failed = None
    /\ emitted = None
    /\ since = {}
    /\ CodecIdle
    /\ InvokerIdle
    /\ TypesIdle
    /\ LocatorIdle

\* invoke is called: the result is created and plugin_iter collected
Start ==
    /\ pc = "start"
    /\ UNCHANGED <<codecVars, invokerVars, typesVars, locatorVars>>
    /\ invocation_output' = EmptyResult
    /\ plugin_iter' = IF target.kind = "Plugin" THEN <<1>>
                      ELSE PluginIter(operation, target.plugins)
    /\ idx' = 1
    /\ pc' = "locate"
    /\ UNCHANGED <<variant, operation, invocation, arguments, target, ret, location,
                   environment, stdin, cni_output, inflight, located, executed,
                   failed, emitted, since>>

\* invoke_plugin up to the call of the executor: the locator answers; on
\* Some the environment and the stdin are built and the executor is called
Locate ==
    /\ pc = "locate"
    /\ idx <= Len(plugin_iter)
    /\ UNCHANGED <<codecVars, invokerVars, typesVars, locatorVars>>
    /\ located' = Append(located, CurrentPosition)
    /\ cni_output' = None
    /\ \E loc \in {None, Some(CurrentPlugin.plugin_type)} :
          /\ location' = loc
          /\ IF IsSome(LocateOrFail(loc))
             THEN /\ failed' = Some([position |-> CurrentPosition,
                                     kind |-> Unwrap(LocateOrFail(loc)).kind])
                  /\ pc' = Try(LocateOrFail(loc), idx).pc
                  /\ idx' = Try(LocateOrFail(loc), idx).idx
                  /\ ret' = Try(LocateOrFail(loc), idx).ret
                  /\ UNCHANGED <<environment, stdin, inflight, executed>>
             ELSE LET args == EffectiveArguments(variant, operation, invocation, arguments)
                  IN  /\ environment' = BuildEnvironment(operation, args)
                      /\ stdin' = DeriveStdin(variant, CurrentPlugin, args, target,
                                      PreviousAttachment(variant, args, invocation_output))
                      /\ executed' = Append(executed, CurrentPosition)
                      /\ inflight' = inflight \cup {CurrentPosition}
                      /\ pc' = InvokerAwait(idx).pc
                      /\ idx' = InvokerAwait(idx).idx
                      /\ UNCHANGED <<ret, failed>>
    /\ UNCHANGED <<variant, operation, invocation, arguments, target, plugin_iter,
                   invocation_output, emitted, since>>

\* the executor fails with an I/O error
InvokerFails ==
    /\ pc = "invoker"
    /\ UNCHANGED <<codecVars, invokerVars, typesVars, locatorVars>>
    /\ inflight' = inflight \ {CurrentPosition}
    /\ \E cause \in IoErrors :
          /\ failed' = Some([position |-> CurrentPosition, kind |-> "InvokerFailed",
                             cause |-> cause])
          /\ pc' = Try(Some(InvokerFailed(cause)), idx).pc
          /\ idx' = Try(Some(InvokerFailed(cause)), idx).idx
          /\ ret' = Try(Some(InvokerFailed(cause)), idx).ret
    /\ UNCHANGED <<variant, operation, invocation, arguments, target, plugin_iter,
                   invocation_output, location, environment, stdin, cni_output,
                   located, executed, emitted, since>>

\* the executor returns a text, which add_to_invocation_output classifies
InvokerReturns ==
    /\ pc = "invoker"
    /\ UNCHANGED <<codecVars, invokerVars, typesVars, locatorVars>>
    /\ \E out \in Outputs :
          LET r == AddToInvocationOutput(variant, out, CurrentPlugin, invocation_output)
          IN  /\ cni_output' = Some(out)
              /\ inflight' = inflight \ {CurrentPosition}
              /\ invocation_output' = r.output
              /\ emitted' = IF IsAttachmentShaped(out) THEN AttachmentFromStr(out)
                            ELSE emitted
              /\ since' = IF IsAttachmentShaped(out) THEN {}
                          ELSE since \cup {OutputShape(out)}
              /\ failed' = IF IsSome(r.err)
                           THEN Some([position |-> CurrentPosition,
                                      kind |-> Unwrap(r.err).kind])
                           ELSE failed
              /\ pc' = Try(r.err, idx).pc
              /\ idx' = Try(r.err, idx).idx
              /\ ret' = Try(r.err, idx).ret
    /\ UNCHANGED <<variant, operation, invocation, arguments, target, plugin_iter,
                   location, environment, stdin, located, executed>>

\* the loop of invoke is over: Ok(invocation_output)
Finish ==
    /\ pc = "locate"
    /\ idx > Len(plugin_iter)
    /\ UNCHANGED <<codecVars, invokerVars, typesVars, locatorVars>>
    /\ ret' = Ok(invocation_output)
    /\ pc' = "done"
    /\ UNCHANGED <<variant, operation, invocation, arguments, target, plugin_iter,
                   idx, invocation_output, location, environment, stdin, cni_output,
                   inflight, located, executed, failed, emitted, since>>

Next == Start \/ Locate \/ InvokerFails \/ InvokerReturns \/ Finish

Spec == Init /\ [][Next]_vars

----------------------------------------------------------------------------
(* The same walk started from every combination of present and absent     *)
(* arguments, on two targets.                                             *)

\* the fields each variant of the CniInvocation enum of runtime.rs carries
InvocationFields(op) ==
    CASE op = "ADD" -> {"container_id", "net_ns", "interface_name", "paths"}
      [] op = "DEL" -> {"container_id", "net_ns", "interface_name", "attachment", "paths"}
      [] op = "CHECK" -> {"container_id", "net_ns", "interface_name", "attachment"}
      [] op = "GC" -> {"paths", "valid_attachments"}
      [] OTHER -> {}

\* a plugin built in code whose plugin_options hold every key the engine sets
OverlappingPlugin ==
    [plugin_type |-> "p2", args |-> None, capabilities |-> None,
     plugin_options |-> ("type" :> "evil") @@ ("name" :> "other")
                        @@ ("cniVersion" :> "9.9.9")]

EnvTargets ==
    {[kind |-> "PluginList", plugins |-> <<OverlappingPlugin, PlainPlugin>>,
      name |-> NetworkName, cni_version |-> ListVersion],
     [kind |-> "Plugin", plugins |-> <<LoadedPlugin>>,
      name |-> NetworkName, cni_version |-> ListVersion]}

ValidAttachments ==
    <<[container_id |-> "c1", interface_name |-> "eth0"],
      [container_id |-> "c2", interface_name |-> "eth1"]>>

ArgumentChoices ==
    {[container_id |-> c, net_ns |-> n, interface_name |-> i, paths |-> p,
      attachment |-> None, valid_attachments |-> va, cni_version |-> cv] :
        c \in {None, Some("c1")},
        n \in {None, Some("/var/run/netns/t")},
        i \in {None, Some("eth0")},
        p \in {None, Some(<<>>), Some(<<"/opt/cni", "/usr/libexec/cni">>)},
        va \in {None, Some(ValidAttachments)},
        cv \in {None, Some(OverrideVersion)}}

InitEnv ==
    /\ variant \in {"lib", "runtime"}
    /\ operation \in Operations
    /\ target \in EnvTargets
    /\ \E f \in ArgumentChoices, inInvocation \in BOOLEAN :
          IF variant = "runtime" /\ inInvocation
          THEN /\ invocation = [k \in DOMAIN f |->
                                  IF k \in InvocationFields(operation) THEN f[k] ELSE None]
               /\ arguments = [NoFields EXCEPT !.cni_version = f.cni_version]
          ELSE /\ invocation = NoFields
               /\ arguments = f
    /\ pc = "start"
    /\ plugin_iter = <<>>
    /\ idx = 0
    /\ invocation_output = EmptyResult
    /\ ret = Pending
    /\ location = None
    /\ environment = EmptyObject
    /\ stdin = EmptyObject
    /\ cni_output = None
    /\ inflight = {}
    /\ located = <<>>
    /\ executed = <<>>
    /\ failed = None
    /\ emitted = None
    /\ since = {}
    /\ CodecIdle
    /\ InvokerIdle
    /\ TypesIdle
    /\ LocatorIdle

SpecEnv == InitEnv /\ [][Next]_vars

----------------------------------------------------------------------------
(* Properties of the walk *)

DeclaredOrder == Positions(target.plugins)

IsPrefix(s, t) == Len(s) <= Len(t) /\ \A i \in 1..Len(s) : s[i] = t[i]

NoDuplicates(s) == \A i, j \in 1..Len(s) : s[i] = s[j] => i = j

\* C1: for a plugin list whose plugins all succeed, the executor calls of
\* DEL are pN, ..., p1: the reverse of the calls ADD makes on the same list,
\* which are p1, ..., pN.
C1_DelReversesAdd ==
    (target.kind = "PluginList" /\ ret.tag = "Ok") =>
        /\ operation = "ADD" => executed = DeclaredOrder
        /\ operation = "DEL" => executed = ReverseSeq(DeclaredOrder)

C1_Witness ==
    /\ target.kind = "PluginList" /\ Len(target.plugins) = MaxPlugins
    /\ operation = "DEL" /\ ret.tag = "Ok"
    /\ executed = ReverseSeq(DeclaredOrder)
    /\ executed # DeclaredOrder

\* C2: for a plugin list and any operation other than DEL, the plugins are
\* located and executed in declared order: at every moment the locator calls
\* and the executor calls made so far are p1, p2, ... without a gap.
C2_DeclaredOrder ==
    (target.kind = "PluginList" /\ operation # "DEL") =>
        /\ IsPrefix(located, DeclaredOrder)
        /\ IsPrefix(executed, DeclaredOrder)
        /\ \A i, j \in 1..Len(executed) : i < j => executed[i] < executed[j]

C2_Witness ==
    /\ target.kind = "PluginList" /\ Len(target.plugins) = MaxPlugins
    /\ operation = "CHECK" /\ ret.tag = "Ok"
    /\ executed = DeclaredOrder /\ Len(executed) >= 2

\* C3: within one invoke at most one plugin invocation is in flight: the
\* locator and the executor are called for the next plugin only after the
\* executor call of the previous plugin has returned and been classified.
C3_Sequential ==
    /\ Cardinality(inflight) <= 1
    /\ pc = "locate" => inflight = {}
    /\ inflight # {} => (pc = "invoker" /\ inflight = {executed[Len(executed)]})
    /\ Len(executed) <= Len(located) /\ Len(located) <= Len(executed) + 1
    /\ pc = "invoker" => (Len(located) = Len(executed) /\ cni_output = None)

C3_Witness ==
    /\ pc = "invoker" /\ Len(executed) = 2 /\ Cardinality(inflight) = 1
    /\ invocation_output # EmptyResult

----------------------------------------------------------------------------
(* Properties of the classification of plugin output *)

\* the executor has returned a text in this step and it has been classified
ReturnStep == cni_output = None /\ IsSome(cni_output')

Values(f) == {f[k] : k \in DOMAIN f}

\* C5: an output {"cniVersion": V, "code": C, "msg": M} aborts the walk with
\* PluginProducedError carrying code C; result.attachment is not set from it
\* and no later plugin is invoked.
C5_ErrorOutputAborts ==
    /\ []((IsSome(cni_output) /\ IsErrorShaped(Unwrap(cni_output))) =>
            /\ pc = "done"
            /\ ret.tag = "Err" /\ ret.kind = "PluginProducedError"
            /\ ret.value.code = Unwrap(cni_output).obj["code"])
    /\ [][(ReturnStep /\ IsErrorShaped(Unwrap(cni_output'))) =>
            invocation_output'.attachment = invocation_output.attachment]_vars

\* C6: an output with cniVersion and supportedVersions and none of
\* interfaces, ips, routes, dns is classified as a VersionObject: it is added
\* to result.version_objects and result.attachment is left unchanged.
C6_VersionObjectClassified ==
    [][(ReturnStep /\ IsVersionShaped(Unwrap(cni_output'))) =>
         /\ Unwrap(VersionObjectFromStr(Unwrap(cni_output')))
                \in Values(invocation_output'.version_objects)
         /\ invocation_output'.attachment = invocation_output.attachment]_vars

\* C7: classification uses strict schemas: an output without any of
\* interfaces, ips, routes, dns never sets result.attachment, and an output
\* without supportedVersions never changes result.version_objects.
C7_StrictSchemas ==
    [][ReturnStep =>
         LET out == Unwrap(cni_output')
         IN  /\ (DOMAIN out.obj) \cap AttachmentFields = {} =>
                    invocation_output'.attachment = invocation_output.attachment
             /\ ~HasKey(out.obj, "supportedVersions") =>
                    invocation_output'.version_objects = invocation_output.version_objects]_vars

----------------------------------------------------------------------------
(* Properties of prevResult *)

\* the caller supplied no seed attachment, neither in the arguments nor in
\* the invocation
Unseeded == arguments.attachment = None /\ invocation.attachment = None

\* C8: when the caller supplies arguments.attachment, the prevResult of the
\* stdin of every plugin of the walk, the first included, is that seed.
C8_SeedIsPrevResult ==
    (IsSome(arguments.attachment) /\ pc = "invoker") =>
        /\ HasKey(stdin, "prevResult")
        /\ stdin["prevResult"] = AttachmentToValue(Unwrap(arguments.attachment))

\* C9: without a seed, the prevResult a plugin receives is the Attachment most
\* recently emitted by an earlier plugin of the walk; plugins that emitted
\* empty or VersionObject output in between do not change it.
C9_PrevResultIsLastAttachment ==
    (Unseeded /\ pc = "invoker" /\ IsSome(emitted) /\ since \subseteq {"blank", "version"}) =>
        /\ HasKey(stdin, "prevResult")
        /\ stdin["prevResult"] = AttachmentToValue(Unwrap(emitted))

\* C10: without a seed and before any plugin of the walk has emitted an
\* Attachment, the stdin holds no prevResult key, whatever keys
\* plugin_options holds.
C10_NoPrevResultAtFirst ==
    (Unseeded /\ pc = "invoker" /\ emitted = None) => ~HasKey(stdin, "prevResult")

----------------------------------------------------------------------------
(* Properties of the environment and of the stdin document *)

\* the argument f the caller supplied: lib.rs reads it from the arguments,
\* runtime.rs from the overrides and else from the invocation
Argument(f) ==
    IF variant = "lib" \/ IsSome(arguments[f]) THEN arguments[f]
    ELSE IF f \in InvocationFields(operation) THEN invocation[f]
    ELSE None

\* C11: the environment of every executor call holds CNI_COMMAND, equal to
\* the token of the operation; CNI_CONTAINERID, CNI_NETNS, CNI_IFNAME exactly
\* when the argument is present; CNI_PATH exactly when paths is present and
\* not empty; and no other variable.
C11_Environment ==
    pc = "invoker" =>
        /\ environment["CNI_COMMAND"] = operation
        /\ operation \in Operations
        /\ DOMAIN environment =
              {"CNI_COMMAND"}
              \cup (IF IsSome(Argument("container_id")) THEN {"CNI_CONTAINERID"} ELSE {})
              \cup (IF IsSome(Argument("net_ns")) THEN {"CNI_NETNS"} ELSE {})
              \cup (IF IsSome(Argument("interface_name")) THEN {"CNI_IFNAME"} ELSE {})
              \cup (IF IsSome(Argument("paths")) /\ Len(Unwrap(Argument("paths"))) > 0
                    THEN {"CNI_PATH"} ELSE {})

C11_Witness ==
    /\ pc = "invoker"
    /\ Argument("paths") = Some(<<>>)
    /\ IsSome(Argument("container_id")) /\ Argument("net_ns") = None
    /\ DOMAIN environment = {"CNI_COMMAND", "CNI_CONTAINERID"}

ValidAttachmentsKey == "cni.dev/valid-attachments"

\* C12: for GC with valid_attachments set, the stdin of every invoked plugin
\* holds the key cni.dev/valid-attachments, an array of exactly the supplied
\* {containerID, ifname} pairs in the supplied order.
C12_GcValidAttachments ==
    (operation = "GC" /\ IsSome(Argument("valid_attachments")) /\ pc = "invoker") =>
        LET vas == Unwrap(Argument("valid_attachments"))
        IN  /\ HasKey(stdin, ValidAttachmentsKey)
            /\ stdin[ValidAttachmentsKey] =
                  [i \in 1..Len(vas) |->
                      ("containerID" :> vas[i].container_id)
                      @@ ("ifname" :> vas[i].interface_name)]

\* C13: the key cni.dev/valid-attachments is written only for GC: for ADD,
\* DEL, CHECK, VERSION and STATUS the stdin never holds it, even when
\* valid_attachments is supplied.
C13_ValidAttachmentsOnlyForGc ==
    (operation # "GC" /\ pc = "invoker") => ~HasKey(stdin, ValidAttachmentsKey)

\* C14: in every derived stdin the values of type, name and cniVersion are
\* the type of the plugin, the network name of the target and the version of
\* the target, replaced by arguments.cni_version when that is set, whatever
\* plugin_options holds under these keys.
C14_TypeNameVersion ==
    pc = "invoker" =>
        /\ {"type", "name", "cniVersion"} \subseteq DOMAIN stdin
        /\ stdin["type"] = CurrentPlugin.plugin_type
        /\ stdin["name"] = target.name
        /\ stdin["cniVersion"] = IF IsSome(arguments.cni_version)
                                 THEN Unwrap(arguments.cni_version)
                                 ELSE target.cni_version

C14_Witness ==
    /\ pc = "invoker"
    /\ {"type", "name", "cniVersion"} \subseteq DOMAIN CurrentPlugin.plugin_options
    /\ arguments.cni_version = Some(OverrideVersion)
    /\ stdin["type"] = "p2" /\ stdin["name"] = NetworkName
    /\ stdin["cniVersion"] = OverrideVersion

----------------------------------------------------------------------------
(* Properties of the rolling result *)

\* C15: an output that is empty after trimming causes no error and leaves
\* result.attachment and result.version_objects unchanged, and the walk goes
\* on with the next plugin; when every plugin of a walk emits empty output
\* the result has no attachment and no version objects.
C15_EmptyOutput ==
    /\ [][(ReturnStep /\ IsBlank(Unwrap(cni_output'))) =>
            /\ invocation_output' = invocation_output
            /\ failed' = None /\ ret'.tag # "Err"
            /\ pc' = "locate" /\ idx' = idx + 1]_vars
    /\ []((ret.tag = "Ok" /\ emitted = None /\ since = {"blank"}) =>
            /\ ret.value.attachment = None
            /\ DOMAIN ret.value.version_objects = {})

C15_Witness ==
    /\ ret.tag = "Ok" /\ emitted = None /\ since = {"blank"}
    /\ Len(executed) = MaxPlugins
    /\ ret.value = EmptyResult

\* C16: a VersionObject output is stored in result.version_objects under the
\* type of the plugin that produced it, replacing an earlier entry of that
\* type, so that version_objects holds one entry per plugin type: that of the
\* later plugin.
C16_VersionObjectsByType ==
    [][(ReturnStep /\ IsVersionShaped(Unwrap(cni_output'))) =>
         LET t == CurrentPlugin.plugin_type
             old == invocation_output.version_objects
             new == invocation_output'.version_objects
         IN  /\ DOMAIN new = (DOMAIN old) \cup {t}
             /\ new[t] = Unwrap(VersionObjectFromStr(Unwrap(cni_output')))
             /\ \A k \in (DOMAIN old) \ {t} : new[k] = old[k]]_vars

\* C17: after a successful walk result.attachment is the Attachment emitted
\* by the last plugin that emitted one, or absent if none did (outputs that
\* are empty or VersionObjects do not count); recording an Attachment
\* replaces the attachment only and leaves version_objects unchanged.
C17_LastAttachment ==
    /\ []((ret.tag = "Ok" /\ since \subseteq {"blank", "version"}) =>
            ret.value.attachment = emitted)
    /\ [][(ReturnStep /\ IsAttachmentShaped(Unwrap(cni_output'))) =>
            /\ invocation_output'.attachment = AttachmentFromStr(Unwrap(cni_output'))
            /\ invocation_output'.version_objects = invocation_output.version_objects]_vars

\* C18: when the locator answers None for a plugin's type, invoke fails with
\* PluginNotFoundByLocator and the executor is not called for that plugin;
\* the plugins before it in the walk have been executed.
C18_PluginNotFound ==
    [](( located # <<>> /\ location = None) =>
          /\ pc = "done"
          /\ ret.tag = "Err" /\ ret.kind = "PluginNotFoundByLocator"
          /\ executed = SubSeq(located, 1, Len(located) - 1)
          /\ \A i \in 1..Len(executed) : executed[i] # located[Len(located)]
          /\ inflight = {})

C18_Witness ==
    /\ operation = "ADD" /\ target.kind = "PluginList" /\ Len(target.plugins) = 2
    /\ located = <<1, 2>> /\ location = None
    /\ executed = <<1>>
    /\ ret.tag = "Err" /\ ret.kind = "PluginNotFoundByLocator"

\* C19: an output that is not empty after trimming and is none of
\* Attachment, VersionObject (by the schemas of the specification) and
\* PluginError (code and msg) aborts the walk with
\* PluginProducedUnrecognizableOutput carrying the text the executor
\* returned, unmodified.
C19_Unrecognizable ==
    [][(/\ ReturnStep
        /\ ~IsAttachmentShaped(Unwrap(cni_output'))
        /\ ~IsVersionShaped(Unwrap(cni_output'))
        /\ ~IsSome(ErrorFromStr(Unwrap(cni_output')))
        /\ ~IsBlank(Unwrap(cni_output'))) =>
            /\ pc' = "done"
            /\ ret'.tag = "Err" /\ ret'.kind = "PluginProducedUnrecognizableOutput"
            /\ ret'.value = Unwrap(cni_output')]_vars

\* C20: when the executor fails with an I/O error, invoke fails with
\* InvokerFailed wrapping that error, and the rolling result is not updated
\* for that plugin.
C20_InvokerFailed ==
    /\ []((IsSome(failed) /\ Unwrap(failed).kind = "InvokerFailed") =>
            /\ pc = "done"
            /\ ret.tag = "Err" /\ ret.kind = "InvokerFailed"
            /\ ret.value = Unwrap(failed).cause)
    /\ [][(pc = "invoker" /\ cni_output' = None) =>
            /\ IsSome(failed') /\ Unwrap(failed').kind = "InvokerFailed"
            /\ invocation_output' = invocation_output]_vars

C20_Witness ==
    /\ ret.tag = "Err" /\ ret.kind = "InvokerFailed" /\ ret.value = "PermissionDenied"
    /\ Len(executed) = 2
    /\ invocation_output.attachment = emitted /\ IsSome(emitted)

----------------------------------------------------------------------------
(* The configuration codec: src/src/plugins.rs and, in its first form,     *)
(* src/src/data.rs.  A serde_json Value is a record with one field that    *)
(* names its kind; a JSON string is a sequence of characters.              *)

JString(s) == [string |-> s]

JNumber(n) == [number |-> n]

JBool(b) == [bool |-> b]

JArray(a) == [array |-> a]

JObject(o) == [object |-> o]

\* Value::as_str, as_bool, as_array, as_object: Some for that kind only
AsStr(v) == IF DOMAIN v = {"string"} THEN Some(v.string) ELSE None

AsBool(v) == IF DOMAIN v = {"bool"} THEN Some(v.bool) ELSE None

AsArray(v) == IF DOMAIN v = {"array"} THEN Some(v.array) ELSE None

AsObject(v) == IF DOMAIN v = {"object"} THEN Some(v.object) ELSE None

Digits == {"0", "1", "2", "3", "4", "5", "6", "7", "8", "9"}

DigitValue ==
    ("0" :> 0) @@ ("1" :> 1) @@ ("2" :> 2) @@ ("3" :> 3) @@ ("4" :> 4) @@
    ("5" :> 5) @@ ("6" :> 6) @@ ("7" :> 7) @@ ("8" :> 8) @@ ("9" :> 9)

DigitChar == [n \in 0..9 |-> CHOOSE c \in Digits : DigitValue[c] = n]

\* the ASCII letters that occur in the documents of this model
Alphabetic == {"a", "b", "e", "n", "p", "t", "x", "N"}

\* str::split('.'): the pieces between the dots, at least one
RECURSIVE Split(_, _)
Split(s, sep) ==
    IF \A i \in 1..Len(s) : s[i] # sep THEN <<s>>
    ELSE LET i == CHOOSE i \in 1..Len(s) : s[i] = sep /\ \A j \in 1..(i - 1) : s[j] # sep
         IN  <<SubSeq(s, 1, i - 1)>> \o Split(SubSeq(s, i + 1, Len(s)), sep)

RECURSIVE DecimalValue(_)
DecimalValue(s) ==
    IF s = <<>> THEN 0
    ELSE 10 * DecimalValue(SubSeq(s, 1, Len(s) - 1)) + DigitValue[s[Len(s)]]

\* <u8 as FromStr>::from_str: an optional "+", then one digit or more, the
\* value at most u8::MAX
ParseU8(s) ==
    LET digits == IF s # <<>> /\ s[1] = "+" THEN Tail(s) ELSE s
    IN  IF digits = <<>> \/ \E i \in 1..Len(digits) : digits[i] \notin Digits THEN None
        ELSE IF DecimalValue(digits) > 255 THEN None
        ELSE Some(DecimalValue(digits))

\* Display of u8
RECURSIVE FormatU8(_)
FormatU8(n) ==
    IF n < 10 THEN <<DigitChar[n]>>
    ELSE Append(FormatU8(n \div 10), DigitChar[n % 10])

\* CniVersion::new: format!("{major}.{minor}.{patch}")
CniVersionNew(major, minor, patch) ==
    FormatU8(major) \o <<".">> \o FormatU8(minor) \o <<".">> \o FormatU8(patch)

\* CniVersion::parse
CniVersionParse(value) ==
    LET splits == Split(value, ".")
    IN  IF Len(splits) # 3 THEN Error("IncorrectSplitAmount", <<>>)
        ELSE IF \E i \in 1..3 : ParseU8(splits[i]) = None
        THEN Error("SplitNotParseable", <<>>)
        ELSE Ok(CniVersionNew(Unwrap(ParseU8(splits[1])), Unwrap(ParseU8(splits[2])),
                              Unwrap(ParseU8(splits[3]))))

\* CniName::new with the allowed characters of CniContainerId::new
CniNameNewWithPunctuation(name) ==
    IF Trim(name) = <<>> THEN Error("IsEmptyOrBlank", <<>>)
    ELSE IF name[1] \notin Alphabetic THEN Error("FirstIsNotAlphabetic", <<>>)
    ELSE IF \E i \in 1..Len(name) : name[i] \notin Alphabetic \cup Digits \cup {".", "_", "-"}
    THEN Error("ContainsForbiddenCharacter", <<>>)
    ELSE Ok(name)

\* CniName::new
CniNameNew(name) ==
    IF Trim(name) = <<>> THEN Error("IsEmptyOrBlank", <<>>)
    ELSE IF name[1] \notin Alphabetic THEN Error("FirstIsNotAlphabetic", <<>>)
    ELSE IF \E i \in 1..Len(name) : name[i] \notin Alphabetic \cup Digits
    THEN Error("ContainsForbiddenCharacter", <<>>)
    ELSE Ok(name)

SpecialKeys == {"type", "args", "capabilities"}

\* the `_ =>` arm taking every key but "type"
PluginOptionsOfAllButType(obj) == [k \in (DOMAIN obj) \ {"type"} |-> obj[k]]

\* the `_ => plugin_options.insert(key, value)` arm of the match on the key
PluginOptionsOf(obj) == [k \in (DOMAIN obj) \ SpecialKeys |-> obj[k]]

\* the error of the arm of one of the special keys, if the value has the
\* wrong kind; data.rs answers MissingKey for args and capabilities
SpecialKeyError(c, k, value) ==
    IF k = "type"
    THEN IF IsSome(AsStr(value)) THEN None ELSE Some(Error("KeyOfWrongType", <<>>))
    ELSE IF IsSome(AsObject(value)) THEN None
    ELSE IF c = "plugins" THEN Some(Error("KeyOfWrongType", <<>>))
    ELSE Some(Error("MissingKey", <<>>))

\* CniPlugin::from_json_value (plugins.rs) and Plugin::from_json (data.rs);
\* `order` is the order in which the Map yields the special keys
PluginFromJsonValue(c, value, order) ==
    IF AsObject(value) = None
    THEN IF c = "plugins" THEN Error("KeyOfWrongType", <<>>)
         ELSE Error("RootIsNotObject", <<>>)
    ELSE LET obj == Unwrap(AsObject(value))
             IsBad(k) == HasKey(obj, k) /\ IsSome(SpecialKeyError(c, k, obj[k]))
             bad == SelectSeq(order, IsBad)
         IN  IF bad # <<>> THEN Unwrap(SpecialKeyError(c, bad[1], obj[bad[1]]))
             ELSE IF ~HasKey(obj, "type") THEN Error("MissingKey", <<>>)
             ELSE Ok([plugin_type |-> Unwrap(AsStr(obj["type"])),
                      args |-> IF HasKey(obj, "args") THEN AsObject(obj["args"]) ELSE None,
                      capabilities |-> IF HasKey(obj, "capabilities")
                                       THEN AsObject(obj["capabilities"]) ELSE None,
                      plugin_options |-> PluginOptionsOf(obj)])

\* the loop over plugin_options without the test of the key
PluginToJsonValueOverwriting(plugin) ==
    Ok(JObject(plugin.plugin_options
               @@ (IF IsSome(plugin.capabilities)
                   THEN "capabilities" :> JObject(Unwrap(plugin.capabilities)) ELSE <<>>)
               @@ (IF IsSome(plugin.args)
                   THEN "args" :> JObject(Unwrap(plugin.args)) ELSE <<>>)
               @@ ("type" :> JString(plugin.plugin_type))))

\* CniPlugin::to_json_value
PluginToJsonValue(plugin) ==
    IF (DOMAIN plugin.plugin_options) \cap SpecialKeys # {}
    THEN Error("OverlappingKey", <<>>)
    ELSE Ok(JObject(("type" :> JString(plugin.plugin_type))
                    @@ (IF IsSome(plugin.args)
                        THEN "args" :> JObject(Unwrap(plugin.args)) ELSE <<>>)
                    @@ (IF IsSome(plugin.capabilities)
                        THEN "capabilities" :> JObject(Unwrap(plugin.capabilities)) ELSE <<>>)
                    @@ plugin.plugin_options))

Panic == [tag |-> "Panic", kind |-> "", value |-> <<>>]

\* the first element of a sequence of Results that is not Ok, if any
FirstFailure(results) ==
    LET NotOk(r) == r.tag # "Ok"
    IN  IF SelectSeq(results, NotOk) = <<>> THEN None
        ELSE Some(SelectSeq(results, NotOk)[1])

\* an array taken as it is, empty or not
EmptyArrayUnchecked(array) == None

\* `if parsed_list.is_empty()` / `if plugin_jsons.is_empty()`:
\* `return Err(CniDeserializationError::EmptyArray)`
EmptyArray(array) == IF array = <<>> THEN Some(Error("EmptyArray", <<>>)) ELSE None

\* the version of a document: plugins.rs parses it, data.rs keeps the string
VersionFromStr(c, text) ==
    IF c = "data" THEN Ok(text)
    ELSE IF CniVersionParse(text).tag = "Ok" THEN CniVersionParse(text)
    ELSE Error("MalformedVersion", <<CniVersionParse(text).kind>>)

\* one element of cniVersions; data.rs panics on an element that is no string
VersionFromValue(c, value) ==
    IF AsStr(value) = None
    THEN IF c = "data" THEN Panic ELSE Error("KeyOfWrongType", <<>>)
    ELSE VersionFromStr(c, Unwrap(AsStr(value)))

\* the name of a document: plugins.rs validates it, data.rs keeps the string
NameFromStr(c, text) ==
    IF c = "data" THEN Ok(text)
    ELSE IF CniNameNew(text).tag = "Ok" THEN CniNameNew(text)
    ELSE Error("MalformedName", <<CniNameNew(text).kind>>)

\* a required string key: MissingKey, KeyOfWrongType, or the string
RequiredStr(obj, k) ==
    IF ~HasKey(obj, k) THEN Error("MissingKey", <<>>)
    ELSE IF AsStr(obj[k]) = None THEN Error("KeyOfWrongType", <<>>)
    ELSE Ok(Unwrap(AsStr(obj[k])))

\* an optional bool key, false when absent
OptionalBool(obj, k) ==
    IF ~HasKey(obj, k) THEN Ok(FALSE)
    ELSE IF AsBool(obj[k]) = None THEN Error("KeyOfWrongType", <<>>)
    ELSE Ok(Unwrap(AsBool(obj[k])))

\* the `match obj.remove("cniVersions")` of from_json_value
CniVersionsFromObject(c, obj) ==
    IF ~HasKey(obj, "cniVersions") THEN Ok(None)
    ELSE IF AsArray(obj["cniVersions"]) = None THEN Error("KeyOfWrongType", <<>>)
    ELSE LET list == Unwrap(AsArray(obj["cniVersions"]))
             parsed == [i \in 1..Len(list) |-> VersionFromValue(c, list[i])]
         IN  IF IsSome(FirstFailure(parsed)) THEN Unwrap(FirstFailure(parsed))
             ELSE IF IsSome(EmptyArray(list)) THEN Unwrap(EmptyArray(list))
             ELSE Ok(Some([i \in 1..Len(list) |-> parsed[i].value]))

\* the plugins of from_json_value, from `obj.remove("plugins")` on
PluginsFromObject(c, obj, order) ==
    IF ~HasKey(obj, "plugins") THEN Error("MissingKey", <<>>)
    ELSE IF AsArray(obj["plugins"]) = None THEN Error("KeyOfWrongType", <<>>)
    ELSE LET plugin_jsons == Unwrap(AsArray(obj["plugins"]))
             parsed == [i \in 1..Len(plugin_jsons) |->
                          PluginFromJsonValue(c, plugin_jsons[i], order)]
         IN  IF IsSome(EmptyArray(plugin_jsons)) THEN Unwrap(EmptyArray(plugin_jsons))
             ELSE IF IsSome(FirstFailure(parsed)) THEN Unwrap(FirstFailure(parsed))
             ELSE Ok([i \in 1..Len(plugin_jsons) |-> parsed[i].value])

\* CniPluginList::from_json_value (plugins.rs) and PluginList::from_json
\* (data.rs): the keys are taken in the order of the code and the first
\* error returns
ListFromJsonValue(c, value, order) ==
    IF AsObject(value) = None THEN Error("RootIsNotObject", <<>>)
    ELSE LET obj == Unwrap(AsObject(value))
             cni_version == IF RequiredStr(obj, "cniVersion").tag = "Ok"
                            THEN VersionFromStr(c, RequiredStr(obj, "cniVersion").value)
                            ELSE RequiredStr(obj, "cniVersion")
             cni_versions == CniVersionsFromObject(c, obj)
             name == IF RequiredStr(obj, "name").tag = "Ok"
                     THEN NameFromStr(c, RequiredStr(obj, "name").value)
                     ELSE RequiredStr(obj, "name")
             disable_check == OptionalBool(obj, "disableCheck")
             disable_gc == OptionalBool(obj, "disableGC")
             plugins == PluginsFromObject(c, obj, order)
             steps == <<cni_version, cni_versions, name, disable_check, disable_gc, plugins>>
         IN  IF IsSome(FirstFailure(steps)) THEN Unwrap(FirstFailure(steps))
             ELSE Ok([cni_version |-> cni_version.value,
                      cni_versions |-> cni_versions.value,
                      name |-> name.value,
                      disable_check |-> disable_check.value,
                      disable_gc |-> disable_gc.value,
                      plugins |-> plugins.value])

\* CniPluginList::to_json_value
ListToJsonValue(list) ==
    LET plugins == [i \in 1..Len(list.plugins) |-> PluginToJsonValue(list.plugins[i])]
    IN  IF IsSome(FirstFailure(plugins)) THEN Unwrap(FirstFailure(plugins))
        ELSE Ok(JObject(
                ("cniVersion" :> JString(list.cni_version))
                @@ (IF IsSome(list.cni_versions)
                    THEN "cniVersions" :>
                           JArray([i \in 1..Len(Unwrap(list.cni_versions)) |->
                                     JString(Unwrap(list.cni_versions)[i])])
                    ELSE <<>>)
                @@ ("name" :> JString(list.name))
                @@ ("disableCheck" :> JBool(list.disable_check))
                @@ ("disableGC" :> JBool(list.disable_gc))
                @@ ("plugins" :> JArray([i \in 1..Len(plugins) |-> plugins[i].value]))))

\* from_json_value of the type `subject`
FromJsonValue(c, sub, value, order) ==
    IF sub = "Plugin" THEN PluginFromJsonValue(c, value, order)
    ELSE ListFromJsonValue(c, value, order)

\* to_json_value of the type `subject`
ToJsonValue(sub, value) ==
    IF sub = "Plugin" THEN PluginToJsonValue(value) ELSE ListToJsonValue(value)

----------------------------------------------------------------------------
(* Documents and values the codec is run on *)

V100 == <<"1", ".", "0", ".", "0">>

V040 == <<"0", ".", "4", ".", "0">>

\* accepted by CniVersion::parse, not in the form CniVersion::new writes
V0100 == <<"0", "1", ".", "0", ".", "0">>

NetName == <<"n", "e", "t">>

TypeP1 == <<"p", "1">>

ArgsObject == "k" :> JString(<<"x">>)

CapabilitiesObject == "portMappings" :> JBool(TRUE)

BridgeOptions == "bridge" :> JString(<<"b", "0">>)

\* a JSON object of a plugin from the values of its keys, each maybe absent
PluginDocument(type, args, capabilities, options) ==
    JObject((IF type = None THEN <<>> ELSE "type" :> type[1])
            @@ (IF args = None THEN <<>> ELSE "args" :> args[1])
            @@ (IF capabilities = None THEN <<>> ELSE "capabilities" :> capabilities[1])
            @@ options)

PluginDocuments ==
    {JNumber(3)} \cup
    {PluginDocument(t, a, c, o) :
        t \in {None, <<JString(TypeP1)>>, <<JNumber(1)>>},
        a \in {None, <<JObject(ArgsObject)>>, <<JNumber(5)>>},
        c \in {None, <<JObject(CapabilitiesObject)>>, <<JString(<<"x">>)>>},
        o \in {<<>>, BridgeOptions, BridgeOptions @@ ("mtu" :> JNumber(1500))}}

PluginArrays ==
    LET good == PluginDocument(<<JString(TypeP1)>>, None, None, <<>>)
        full == PluginDocument(<<JString(<<"p", "2">>)>>, <<JObject(ArgsObject)>>,
                               <<JObject(CapabilitiesObject)>>, BridgeOptions)
    IN  {<<>>, <<good>>, <<good, full>>,
         <<good, PluginDocument(None, None, None, BridgeOptions)>>,
         <<PluginDocument(<<JString(TypeP1)>>, <<JNumber(5)>>, None, <<>>)>>}

ListDocuments ==
    {JArray(<<>>)} \cup
    {JObject((IF v = None THEN <<>> ELSE "cniVersion" :> v[1])
             @@ (IF vs = None THEN <<>> ELSE "cniVersions" :> vs[1])
             @@ (IF n = None THEN <<>> ELSE "name" :> n[1])
             @@ (IF dc = None THEN <<>> ELSE "disableCheck" :> dc[1])
             @@ (IF dg = None THEN <<>> ELSE "disableGC" :> dg[1])
             @@ (IF x = None THEN <<>> ELSE "ipam" :> x[1])
             @@ (IF ps = None THEN <<>> ELSE "plugins" :> ps[1])) :
        v \in {None, <<JNumber(1)>>, <<JString(V100)>>, <<JString(V0100)>>, <<JString(<<"1", ".", "0">>)>>},
        vs \in {None, <<JArray(<<>>)>>, <<JArray(<<JString(V040), JString(V100)>>)>>,
                <<JArray(<<JNumber(1)>>)>>, <<JNumber(2)>>},
        n \in {None, <<JString(NetName)>>, <<JString(<<"9", "n", "e", "t">>)>>},
        dc \in {None, <<JBool(TRUE)>>, <<JString(<<"x">>)>>},
        dg \in {None, <<JBool(FALSE)>>},
        x \in {None, <<JObject(BridgeOptions)>>},
        ps \in {None, <<JNumber(0)>>} \cup {<<JArray(a)>> : a \in PluginArrays}}

\* CniPlugin values written as struct literals: every field is public
PluginValues ==
    {[plugin_type |-> TypeP1, args |-> a, capabilities |-> c, plugin_options |-> o] :
        a \in {None, Some(ArgsObject)},
        c \in {None, Some(CapabilitiesObject)},
        o \in {<<>>, BridgeOptions, "type" :> JString(<<"x">>),
               BridgeOptions @@ ("args" :> JNumber(5))}}

\* CniPluginList values written as struct literals; the versions come from
\* CniVersion::new, CniVersion::parse or serde (CniVersion derives
\* Deserialize), the name from CniName::new
ListValues ==
    {[cni_version |-> v, cni_versions |-> vs, name |-> NetName,
      disable_check |-> dc, disable_gc |-> dg, plugins |-> ps] :
        v \in {V100, V0100},
        vs \in {None, Some(<<>>), Some(<<V040, V100>>)},
        dc \in BOOLEAN, dg \in BOOLEAN,
        ps \in LET plain == [plugin_type |-> TypeP1, args |-> None,
                                capabilities |-> None, plugin_options |-> <<>>]
               IN  {<<>>, <<plain>>} \cup {<<plain, p>> : p \in PluginValues}}

\* BTreeMap order of the keys, and the order of a document written
\* type-first under serde_json's preserve_order
KeyOrders == {<<"args", "capabilities", "type">>, <<"type", "capabilities", "args">>}

\* the walk is not running
WalkIdle ==
    /\ variant = "lib"
    /\ operation = "ADD"
    /\ invocation = NoFields
    /\ arguments = NoFields
    /\ target = [kind |-> "Plugin", plugins |-> <<PlainPlugin>>]
    /\ pc = "idle"
    /\ plugin_iter = <<>>
    /\ idx = 0
    /\ invocation_output = EmptyResult
    /\ ret = Pending
    /\ location = None
    /\ environment = EmptyObject
    /\ stdin = EmptyObject
    /\ cni_output = None
    /\ inflight = {}
    /\ located = <<>>
    /\ executed = <<>>
    /\ failed = None
    /\ emitted = None
    /\ since = {}

InitCodec ==
    /\ WalkIdle
    /\ InvokerIdle
    /\ TypesIdle
    /\ LocatorIdle
    /\ codec \in {"plugins", "data"}
    /\ subject \in {"PluginList", "Plugin"}
    /\ key_order \in KeyOrders
    /\ \/ /\ json_value \in {Some(d) : d \in IF subject = "Plugin" THEN PluginDocuments
                                              ELSE ListDocuments}
          /\ self_value = None
       \/ /\ codec = "plugins"
          /\ json_value = None
          /\ self_value \in {Some(x) : x \in IF subject = "Plugin" THEN PluginValues
                                              ELSE ListValues}
    /\ from_result = None
    /\ to_result = None
    /\ round_trip = None

\* from_json_value is called on the document
FromJson ==
    /\ IsSome(json_value)
    /\ from_result = None
    /\ from_result' = Some(FromJsonValue(codec, subject, Unwrap(json_value), key_order))
    /\ self_value' = IF Unwrap(from_result').tag = "Ok"
                     THEN Some(Unwrap(from_result').value) ELSE None
    /\ UNCHANGED <<codec, subject, key_order, json_value, to_result, round_trip>>
    /\ UNCHANGED <<walkVars, invokerVars, typesVars, locatorVars>>

\* to_json_value is called on the value in hand: the one from_json_value
\* returned or the one the caller built; data.rs has no emitter
ToJson ==
    /\ codec = "plugins"
    /\ IsSome(self_value)
    /\ to_result = None
    /\ to_result' = Some(ToJsonValue(subject, Unwrap(self_value)))
    /\ UNCHANGED <<codec, subject, key_order, json_value, from_result, self_value,
                   round_trip>>
    /\ UNCHANGED <<walkVars, invokerVars, typesVars, locatorVars>>

\* from_json_value is called on the emitted document
FromEmitted ==
    /\ IsSome(to_result)
    /\ Unwrap(to_result).tag = "Ok"
    /\ round_trip = None
    /\ round_trip' = Some(FromJsonValue(codec, subject, Unwrap(to_result).value, key_order))
    /\ UNCHANGED <<codec, subject, key_order, json_value, from_result, self_value,
                   to_result>>
    /\ UNCHANGED <<walkVars, invokerVars, typesVars, locatorVars>>

NextCodec == FromJson \/ ToJson \/ FromEmitted

SpecCodec == InitCodec /\ [][NextCodec]_vars

----------------------------------------------------------------------------
(* Properties of the codec *)

\* the plugin `p` keeps in plugin_options the keys of the object `obj` other
\* than type, args and capabilities, each with the value it has in `obj`
OptionsAreTheOtherKeys(p, obj) ==
    /\ (DOMAIN p.plugin_options) \cap SpecialKeys = {}
    /\ DOMAIN p.plugin_options = (DOMAIN obj) \ SpecialKeys
    /\ \A k \in DOMAIN p.plugin_options : p.plugin_options[k] = obj[k]

\* the result `res` of parsing the document `doc` as `subject`
ParsedKeepsOptions(res, doc) ==
    res.tag = "Ok" =>
        IF subject = "Plugin" THEN OptionsAreTheOtherKeys(res.value, doc.object)
        ELSE \A i \in 1..Len(res.value.plugins) :
                OptionsAreTheOtherKeys(res.value.plugins[i],
                                       doc.object["plugins"].array[i].object)

\* C21: every Plugin that the parser produces has none of the keys type,
\* args, capabilities in plugin_options, and every other top-level key of
\* its source object is in plugin_options with the value unchanged.
C21_PluginOptions ==
    /\ IsSome(from_result) => ParsedKeepsOptions(Unwrap(from_result), Unwrap(json_value))
    /\ IsSome(round_trip) => ParsedKeepsOptions(Unwrap(round_trip), Unwrap(to_result).value)

C21_Witness ==
    /\ subject = "Plugin" /\ IsSome(from_result) /\ Unwrap(from_result).tag = "Ok"
    /\ SpecialKeys \subseteq DOMAIN Unwrap(json_value).object
    /\ DOMAIN Unwrap(from_result).value.plugin_options = {"bridge", "mtu"}

\* C22: for every CniPluginList and CniPlugin value x built through the
\* public API, to_json_value succeeds and from_json_value of the emitted
\* document returns a value equal to x.
C22_RoundTrip ==
    (json_value = None /\ IsSome(self_value)) =>
        /\ IsSome(to_result) => Unwrap(to_result).tag = "Ok"
        /\ IsSome(round_trip) =>
              /\ Unwrap(round_trip).tag = "Ok"
              /\ Unwrap(round_trip).value = Unwrap(self_value)

\* C23: for every plugin-list document J that from_json_value accepts,
\* to_json_value of the parsed list is J again up to the order of the keys:
\* no key is dropped, none is added and no value is rewritten.
C23_EmitOfParse ==
    (/\ subject = "PluginList"
     /\ IsSome(from_result) /\ Unwrap(from_result).tag = "Ok"
     /\ IsSome(to_result)) =>
        /\ Unwrap(to_result).tag = "Ok"
        /\ Unwrap(to_result).value = Unwrap(json_value)

\* the keys that from_json_value takes before `key` hold values it accepts
KeysBeforeAreGood(obj, key) ==
    /\ HasKey(obj, "cniVersion") /\ obj["cniVersion"] \in {JString(V100), JString(V0100)}
    /\ key = "plugins" =>
          /\ HasKey(obj, "cniVersions") =>
                obj["cniVersions"] = JArray(<<JString(V040), JString(V100)>>)
          /\ HasKey(obj, "name") /\ obj["name"] = JString(NetName)
          /\ HasKey(obj, "disableCheck") => obj["disableCheck"] = JBool(TRUE)
          /\ HasKey(obj, "disableGC") => obj["disableGC"] = JBool(FALSE)

\* the document has an empty array under `key`
HasEmptyArray(doc, key) ==
    /\ IsSome(AsObject(doc))
    /\ HasKey(doc.object, key)
    /\ doc.object[key] = JArray(<<>>)

HasKeyOfWrongType(obj) ==
    \/ HasKey(obj, "type") /\ AsStr(obj["type"]) = None
    \/ HasKey(obj, "args") /\ AsObject(obj["args"]) = None
    \/ HasKey(obj, "capabilities") /\ AsObject(obj["capabilities"]) = None

\* C25: the parse of a plugin object fails with KeyOfWrongType when type is
\* not a string or when args or capabilities is present and not an object,
\* and with MissingKey when there is no type key; no Plugin is produced in
\* these cases.
C25_PluginParseErrors ==
    (/\ subject = "Plugin" /\ IsSome(from_result)
     /\ IsSome(AsObject(Unwrap(json_value)))) =>
        LET res == Unwrap(from_result)
            obj == Unwrap(json_value).object
        IN  /\ HasKeyOfWrongType(obj) =>
                  (res.tag = "Err" /\ res.kind = "KeyOfWrongType" /\ self_value = None)
            /\ (~HasKeyOfWrongType(obj) /\ ~HasKey(obj, "type")) =>
                  (res.tag = "Err" /\ res.kind = "MissingKey" /\ self_value = None)

\* some plugin among `ps` has one of the special keys in plugin_options
SomeOverlappingKey(ps) ==
    \E i \in 1..Len(ps) : (DOMAIN ps[i].plugin_options) \cap SpecialKeys # {}

\* C26: to_json_value of a Plugin fails with OverlappingKey, and produces
\* no document, exactly when plugin_options holds a key named type, args or
\* capabilities; the error does not occur for a Plugin that the parser
\* returned.
C26_OverlappingKey ==
    IsSome(to_result) =>
        LET res == Unwrap(to_result)
            ps == IF subject = "Plugin" THEN <<Unwrap(self_value)>>
                  ELSE Unwrap(self_value).plugins
        IN  /\ SomeOverlappingKey(ps) <=> res.tag = "Err"
            /\ res.tag = "Err" => (res.kind = "OverlappingKey" /\ res.value = <<>>)
            /\ res.tag = "Ok" => IsSome(AsObject(res.value))
            /\ IsSome(json_value) => res.tag = "Ok"

C26_Witness ==
    /\ subject = "Plugin" /\ json_value = None
    /\ "type" \in DOMAIN Unwrap(self_value).plugin_options
    /\ IsSome(to_result)
    /\ Unwrap(to_result).tag = "Err" /\ Unwrap(to_result).kind = "OverlappingKey"

----------------------------------------------------------------------------
(* The executors of src/src/invocation.rs: RootfulCniInvoker runs the      *)
(* plugin directly, SuCniInvoker runs it through su.  Texts are sequences  *)
(* of characters; an environment is a function from name to value.         *)

CNI_COMMAND == <<"C", "N", "I", "_", "C", "O", "M", "M", "A", "N", "D">>

CNI_IFNAME == <<"C", "N", "I", "_", "I", "F", "N", "A", "M", "E">>

\* the name of the variable starts with CNI_
IsCniVariable(name) == Len(name) >= 4 /\ SubSeq(name, 1, 4) = <<"C", "N", "I", "_">>

\* environments of the process that calls the executor
ParentEnvs ==
    {<<>>,
     <<"P", "A", "T", "H">> :> <<"/", "b">>,
     (<<"P", "A", "T", "H">> :> <<"/", "b">>) @@ (CNI_IFNAME :> <<"e", "9">>),
     CNI_COMMAND :> <<"D", "E", "L">>}

\* environments the engine hands to the executor
GivenEnvs ==
    {<<>>,
     CNI_COMMAND :> <<"A", "D", "D">>,
     (CNI_COMMAND :> <<"A", "D", "D">>) @@ (CNI_IFNAME :> <<"e", "0">>)}

GivenStdins == {<<>>, <<"{", "}">>}

Passwords == {<<"p", "w">>, <<"s", "3", "c">>}

\* the `program` argument of invoke
Program == <<"/", "p", "1">>

\* what a child may have written when it terminates
Stdouts == {<<>>, <<"{", "}">>, <<"{", "a", ":", "1", "}">>}

Stderrs ==
    {<<>>, <<"w">>, <<"w", "a">>, <<"f", "a", "i">>, <<"f", "a", "i", "l">>,
     <<"x", "f", "a", "i", "l", "e", "d">>, <<"w", "a", "r", "n", "i", "n", "g">>}

\* str::contains
Contains(text, pattern) ==
    \E i \in 0..(Len(text) - Len(pattern)) : SubSeq(text, i + 1, i + Len(pattern)) = pattern

\* Command::envs on a Command that inherits: the child gets the variables of
\* the parent, those given set on top of them
Envs(parent, given) == given @@ parent

\* the orders in which a HashMap may yield its keys
KeySequences(env) ==
    {s \in UNION {[1..n -> DOMAIN env] : n \in {Cardinality(DOMAIN env)}} :
        \A i, j \in 1..Len(s) : s[i] = s[j] => i = j}

\* build_env_string, the HashMap yielding its keys in the order `keys`
RECURSIVE build_env_string(_, _)
build_env_string(env, keys) ==
    IF keys = <<>> THEN <<>>
    ELSE Head(keys) \o <<"=">> \o env[Head(keys)] \o <<" ">>
         \o build_env_string(env, Tail(keys))

\* `build_env_string(environment) + program + " ; exit\n"`
FullCommand(env, keys, program) ==
    build_env_string(env, keys) \o program \o <<" ", ";", " ", "e", "x", "i", "t", "\n">>

\* the longer stream, stdout on equal lengths
LongerOfStdoutOnTie(stdout, stderr) == IF Len(stdout) >= Len(stderr) THEN stdout ELSE stderr

\* `if stdout.len() > stderr.len() { Ok(stdout.into()) } else { Ok(stderr.into()) }`
LongerOf(stdout, stderr) == IF Len(stdout) > Len(stderr) THEN stdout ELSE stderr

\* the stderr searched at its start only
SuResultOnPrefix(stdout, stderr) ==
    IF Len(stderr) >= 4 /\ SubSeq(stderr, 1, 4) = <<"f", "a", "i", "l">>
    THEN Error("PermissionDenied", <<>>)
    ELSE Ok(stdout)

\* `if stderr.contains("fail") { return Err(PermissionDenied) }; Ok(stdout)`
SuResult(stdout, stderr) ==
    IF Contains(stderr, <<"f", "a", "i", "l">>) THEN Error("PermissionDenied", <<>>)
    ELSE Ok(stdout)

\* the statements of SuCniInvoker::invoke with the wait before the drop
NextStepWaitingFirst(inv, step) ==
    CASE step = "spawn" -> IF inv = "su" THEN "password" ELSE "stdin"
      [] step = "password" -> "command"
      [] step = "command" -> "stdin"
      [] step = "stdin" -> IF inv = "su" THEN "wait" ELSE "flush"
      [] step = "flush" -> "drop"
      [] step = "drop" -> "wait"
      [] step = "wait" -> "return"
      [] step = "return" -> "done"

\* the statement that follows `step` in invoke of the executor `inv`
NextStep(inv, step) ==
    CASE step = "spawn" -> IF inv = "su" THEN "password" ELSE "stdin"
      [] step = "password" -> "command"
      [] step = "command" -> "stdin"
      [] step = "stdin" -> IF inv = "su" THEN "drop" ELSE "flush"
      [] step = "flush" -> "drop"
      [] step = "drop" -> "wait"
      [] step = "wait" -> "return"
      [] step = "return" -> "done"

InitInvoker ==
    /\ WalkIdle
    /\ CodecIdle
    /\ TypesIdle
    /\ LocatorIdle
    /\ invoker \in {"rootful", "su"}
    /\ ipc = "spawn"
    /\ parent_env \in ParentEnvs
    /\ given_env \in GivenEnvs
    /\ given_stdin \in GivenStdins
    /\ password \in IF invoker = "su" THEN Passwords ELSE {<<>>}
    /\ child_env = EmptyObject
    /\ child_stdin = <<>>
    /\ stdin_open = FALSE
    /\ waited = None
    /\ child_output = None
    /\ iret = None

\* `command.spawn()?` succeeds: the child runs with piped stdin; only the
\* direct executor hands the environment to the Command
Spawn ==
    /\ ipc = "spawn"
    /\ child_env' = IF invoker = "rootful" THEN Envs(parent_env, given_env)
                    ELSE Envs(parent_env, EmptyObject)
    /\ stdin_open' = TRUE
    /\ ipc' = NextStep(invoker, ipc)
    /\ UNCHANGED <<invoker, parent_env, given_env, given_stdin, password, child_stdin,
                   waited, child_output, iret>>
    /\ UNCHANGED <<walkVars, codecVars, typesVars, locatorVars>>

\* `child_stdin.write_all((self.password.clone() + "\n").as_bytes())`
WritePassword ==
    /\ ipc = "password"
    /\ child_stdin' = Append(child_stdin, password \o <<"\n">>)
    /\ ipc' = NextStep(invoker, ipc)
    /\ UNCHANGED <<invoker, parent_env, given_env, given_stdin, password, child_env,
                   stdin_open, waited, child_output, iret>>
    /\ UNCHANGED <<walkVars, codecVars, typesVars, locatorVars>>

\* `child_stdin.write_all(full_command.as_bytes())`
WriteCommand ==
    /\ ipc = "command"
    /\ \E keys \in KeySequences(given_env) :
          child_stdin' = Append(child_stdin, FullCommand(given_env, keys, Program))
    /\ ipc' = NextStep(invoker, ipc)
    /\ UNCHANGED <<invoker, parent_env, given_env, given_stdin, password, child_env,
                   stdin_open, waited, child_output, iret>>
    /\ UNCHANGED <<walkVars, codecVars, typesVars, locatorVars>>

\* `child_stdin.write_all(stdin.as_bytes())`
WriteStdin ==
    /\ ipc = "stdin"
    /\ child_stdin' = Append(child_stdin, given_stdin)
    /\ ipc' = NextStep(invoker, ipc)
    /\ UNCHANGED <<invoker, parent_env, given_env, given_stdin, password, child_env,
                   stdin_open, waited, child_output, iret>>
    /\ UNCHANGED <<walkVars, codecVars, typesVars, locatorVars>>

\* `child_stdin.flush()` of the direct executor
Flush ==
    /\ ipc = "flush"
    /\ ipc' = NextStep(invoker, ipc)
    /\ UNCHANGED <<invoker, parent_env, given_env, given_stdin, password, child_env,
                   child_stdin, stdin_open, waited, child_output, iret>>
    /\ UNCHANGED <<walkVars, codecVars, typesVars, locatorVars>>

\* `drop(child_stdin)`: the child reads EOF
DropStdin ==
    /\ ipc = "drop"
    /\ stdin_open' = FALSE
    /\ ipc' = NextStep(invoker, ipc)
    /\ UNCHANGED <<invoker, parent_env, given_env, given_stdin, password, child_env,
                   child_stdin, waited, child_output, iret>>
    /\ UNCHANGED <<walkVars, codecVars, typesVars, locatorVars>>

\* `child.wait_with_output()` returns the streams of the terminated child
WaitWithOutput ==
    /\ ipc = "wait"
    /\ \E stdout \in Stdouts, stderr \in Stderrs :
          child_output' = Some([stdout |-> stdout, stderr |-> stderr])
    /\ waited' = Some(stdin_open)
    /\ stdin_open' = FALSE
    /\ ipc' = NextStep(invoker, ipc)
    /\ UNCHANGED <<invoker, parent_env, given_env, given_stdin, password, child_env,
                   child_stdin, iret>>
    /\ UNCHANGED <<walkVars, codecVars, typesVars, locatorVars>>

\* the value invoke returns from the Output
Return ==
    /\ ipc = "return"
    /\ iret' = LET o == Unwrap(child_output)
               IN  Some(IF invoker = "rootful" THEN Ok(LongerOf(o.stdout, o.stderr))
                        ELSE SuResult(o.stdout, o.stderr))
    /\ ipc' = NextStep(invoker, ipc)
    /\ UNCHANGED <<invoker, parent_env, given_env, given_stdin, password, child_env,
                   child_stdin, stdin_open, waited, child_output>>
    /\ UNCHANGED <<walkVars, codecVars, typesVars, locatorVars>>

\* an io::Error at spawn, at a write, at the flush or at the wait leaves
\* invoke through `?`; the child's stdin is dropped with the future's locals
IoFails ==
    /\ ipc \in {"spawn", "password", "command", "stdin", "flush", "wait"}
    /\ \E cause \in IoErrors : iret' = Some(Error("io", cause))
    /\ stdin_open' = FALSE
    /\ ipc' = "done"
    /\ UNCHANGED <<invoker, parent_env, given_env, given_stdin, password, child_env,
                   child_stdin, waited, child_output>>
    /\ UNCHANGED <<walkVars, codecVars, typesVars, locatorVars>>

NextInvoker ==
    \/ Spawn \/ WritePassword \/ WriteCommand \/ WriteStdin \/ Flush
    \/ DropStdin \/ WaitWithOutput \/ Return \/ IoFails

SpecInvoker == InitInvoker /\ [][NextInvoker]_vars

----------------------------------------------------------------------------
(* Properties of the executors *)

\* C27: the direct executor gives the child no CNI_* variable other than
\* those of the environment map it was called with, also when the parent
\* process has CNI_* variables of its own.
C27_OnlyGivenCniVariables ==
    invoker = "rootful" =>
        \A name \in DOMAIN child_env :
            IsCniVariable(name) =>
                (HasKey(given_env, name) /\ child_env[name] = given_env[name])

\* the direct executor has returned what it made of the child's streams
DirectReturned == invoker = "rootful" /\ IsSome(iret) /\ IsSome(child_output)

\* C28 as stated: the direct executor returns the longer of stdout and
\* stderr, hence the non-empty one when exactly one of them is non-empty,
\* and when the plugin wrote its JSON result to stdout it returns that JSON.
C28_AsStated ==
    DirectReturned =>
        LET o == Unwrap(child_output)
            r == Unwrap(iret)
        IN  /\ r.tag = "Ok"
            /\ Len(o.stdout) > Len(o.stderr) => r.value = o.stdout
            /\ Len(o.stderr) > Len(o.stdout) => r.value = o.stderr
            /\ (o.stdout # <<>> /\ o.stderr = <<>>) => r.value = o.stdout
            /\ (o.stderr # <<>> /\ o.stdout = <<>>) => r.value = o.stderr
            /\ o.stdout # <<>> => r.value = o.stdout

\* C28, amended: the direct executor returns stdout when it is strictly
\* longer than stderr and stderr otherwise, hence the non-empty stream when
\* exactly one of them is non-empty; a JSON result on stdout is returned
\* when stderr is shorter than it, and is lost to stderr otherwise.
C28_LongerStream ==
    DirectReturned =>
        LET o == Unwrap(child_output)
            r == Unwrap(iret)
        IN  /\ r.tag = "Ok"
            /\ Len(o.stdout) > Len(o.stderr) => r.value = o.stdout
            /\ Len(o.stderr) >= Len(o.stdout) => r.value = o.stderr
            /\ (o.stdout # <<>> /\ o.stderr = <<>>) => r.value = o.stdout
            /\ (o.stderr # <<>> /\ o.stdout = <<>>) => r.value = o.stderr

C28_Witness ==
    /\ DirectReturned
    /\ Unwrap(child_output).stdout = <<"{", "}">>
    /\ Unwrap(child_output).stderr = <<"w", "a">>
    /\ Unwrap(iret).value = <<"w", "a">>

\* the chunks SuCniInvoker writes to the child's stdin, the shell line being
\* `line`
SuStdin(line) == <<password \o <<"\n">>, line, given_stdin>>

\* `line` is one shell line made of the KEY=VAL pairs of the environment,
\* the plugin path and " ; exit"
IsShellLine(line) ==
    /\ \E keys \in KeySequences(given_env) : line = FullCommand(given_env, keys, Program)
    /\ \A k \in DOMAIN given_env : Contains(line, k \o <<"=">> \o given_env[k] \o <<" ">>)
    /\ Contains(line, Program \o <<" ", ";", " ", "e", "x", "i", "t", "\n">>)
    /\ \A i \in 1..Len(line) : line[i] = "\n" <=> i = Len(line)

\* C29: the su executor writes to the child's stdin the password and a
\* newline, then one shell line of the KEY=VAL pairs, the plugin path and
\* " ; exit" with a newline, then the stdin payload, in this order; it has
\* closed the child's stdin when it waits for the child, and the password
\* does not occur in the shell line.
C29_SuStdin ==
    invoker = "su" =>
        /\ child_stdin # <<>> => child_stdin[1] = password \o <<"\n">>
        /\ Len(child_stdin) >= 2 =>
              /\ IsShellLine(child_stdin[2])
              /\ ~Contains(child_stdin[2], password)
        /\ Len(child_stdin) >= 3 => child_stdin = SuStdin(child_stdin[2])
        /\ IsSome(waited) => (waited = Some(FALSE) /\ Len(child_stdin) = 3)
        /\ (ipc \in {"wait", "return"} \/ IsSome(child_output)) =>
              (~stdin_open /\ Len(child_stdin) = 3)

C29_Witness ==
    /\ invoker = "su" /\ waited = Some(FALSE) /\ IsSome(child_output)
    /\ Cardinality(DOMAIN given_env) = 2 /\ given_stdin # <<>>
    /\ child_stdin = SuStdin(child_stdin[2])

\* C30: after the su child has terminated, the su executor returns a
\* PermissionDenied error if the child's stderr contains "fail" and the
\* child's stdout otherwise; a successful return value is the stdout and
\* holds nothing of the stderr.
C30_SuResult ==
    (invoker = "su" /\ IsSome(child_output) /\ IsSome(iret)) =>
        LET o == Unwrap(child_output)
            r == Unwrap(iret)
        IN  /\ Contains(o.stderr, <<"f", "a", "i", "l">>) =>
                  (r.tag = "Err" /\ r.kind = "PermissionDenied")
            /\ ~Contains(o.stderr, <<"f", "a", "i", "l">>) =>
                  (r.tag = "Ok" /\ r.value = o.stdout)
            /\ r.tag = "Ok" => r.value = o.stdout

C30_Witness ==
    /\ invoker = "su" /\ IsSome(iret)
    /\ IsSome(child_output)
    /\ Unwrap(child_output).stderr = <<"x", "f", "a", "i", "l", "e", "d">>
    /\ Unwrap(child_output).stdout # <<>>
    /\ Unwrap(iret).tag = "Err" /\ Unwrap(iret).kind = "PermissionDenied"


----------------------------------------------------------------------------
(* DirectoryCniLocator (src/src/invocation.rs).  A file name and a plugin  *)
(* type are sequences of one-character strings; the directory is the       *)
(* sequence of the file names in the order the ReadDir stream yields them. *)
(* The directory operations are numbered: 1 is read_dir, n + 2 is the      *)
(* next_entry after n entries; io_error_at names the one that fails.       *)

\* the directories of the model: the file names b, ab, bc and c in every
\* number and order, no name twice
Directories ==
    LET FileNames == {<<"b">>, <<"a", "b">>, <<"b", "c">>, <<"c">>}
    IN  {d \in UNION {[1..n -> FileNames] : n \in 0..Cardinality(FileNames)} :
            \A i, j \in DOMAIN d : d[i] = d[j] => i = j}

\* entry.path(): the directory path joined with the file name
EntryPath(file_name) == <<"d", "/">> \o file_name

\* the condition with exact_name ignored
EntryMatchesBySubstring(exact, file_name, plugin_type) ==
    Contains(file_name, plugin_type)

\* the condition of the `if` in the loop of locate
EntryMatches(exact, file_name, plugin_type) ==
    \/ file_name = plugin_type
    \/ (~exact /\ Contains(file_name, plugin_type))

InitLocator ==
    /\ WalkIdle
    /\ CodecIdle
    /\ InvokerIdle
    /\ TypesIdle
    /\ directory \in Directories
    /\ io_error_at \in 0..(Len(directory) + 2)
    /\ exact_name \in BOOLEAN
    /\ wanted_type \in {<<"b">>, <<"a", "b">>, <<"x">>}
    /\ read_dir = None
    /\ path = None

\* `tokio::fs::read_dir(&self.directory_path).await.ok()?`
ReadDir ==
    /\ read_dir = None
    /\ path = None
    /\ IF io_error_at = 1
       THEN /\ path' = Some(None)
            /\ UNCHANGED read_dir
       ELSE /\ read_dir' = Some(0)
            /\ UNCHANGED path
    /\ UNCHANGED <<directory, io_error_at, exact_name, wanted_type>>
    /\ UNCHANGED <<walkVars, codecVars, invokerVars, typesVars>>

\* one turn of `while let Some(entry) = read_dir.next_entry().await.ok()?`
NextEntry ==
    /\ IsSome(read_dir)
    /\ path = None
    /\ LET n == Unwrap(read_dir)
       IN  IF io_error_at = n + 2 \/ n = Len(directory)
           THEN /\ path' = Some(None)
                /\ UNCHANGED read_dir
           ELSE /\ read_dir' = Some(n + 1)
                /\ path' = IF EntryMatches(exact_name, directory[n + 1], wanted_type)
                           THEN Some(Some(EntryPath(directory[n + 1])))
                           ELSE None
    /\ UNCHANGED <<directory, io_error_at, exact_name, wanted_type>>
    /\ UNCHANGED <<walkVars, codecVars, invokerVars, typesVars>>

NextLocator == ReadDir \/ NextEntry

SpecLocator == InitLocator /\ [][NextLocator]_vars

\* the entries the stream yields before an operation fails
Readable ==
    IF io_error_at = 0 THEN Len(directory)
    ELSE IF io_error_at = 1 THEN 0
    ELSE IF io_error_at - 2 < Len(directory) THEN io_error_at - 2
    ELSE Len(directory)

\* what the claim calls a match of entry i
ClaimedMatch(i) ==
    IF exact_name THEN directory[i] = wanted_type
    ELSE Contains(directory[i], wanted_type)

\* C31: with exact_name the directory locator returns the path of the first
\* entry whose file name equals plugin_type, without it the path of the first
\* entry whose file name contains plugin_type; it returns None when no entry
\* read matches or when opening or reading the directory fails before a match
C31_DirectoryLocator ==
    IsSome(path) =>
        LET found == {i \in 1..Readable : ClaimedMatch(i)}
        IN  IF found = {}
            THEN Unwrap(path) = None
            ELSE \E i \in found :
                    /\ \A j \in found : i <= j
                    /\ Unwrap(path) = Some(EntryPath(directory[i]))

\* the locator passed an entry that only contains the type and returned the
\* later entry that equals it
C31_Witness ==
    /\ exact_name
    /\ IsSome(path) /\ IsSome(Unwrap(path))
    /\ \E i \in 1..Len(directory) :
          /\ Unwrap(Unwrap(path)) = EntryPath(directory[i])
          /\ \E j \in 1..(i - 1) : /\ Contains(directory[j], wanted_type)
                                   /\ directory[j] # wanted_type


----------------------------------------------------------------------------
(* The value objects of src/src/types.rs.  A text is a sequence of         *)
(* one-character strings, one per byte.                                    *)

IFNAME_MAX_LENGTH == 15

\* CniContainerId::new with the list of allowed characters left out
CniContainerIdNewAlphanumericOnly(container_id) ==
    IF Trim(container_id) = <<>> THEN Error("IsEmptyOrBlank", <<>>)
    ELSE IF container_id[1] \notin Alphabetic THEN Error("FirstIsNotAlphabetic", <<>>)
    ELSE IF \E i \in 1..Len(container_id) : container_id[i] \notin Alphabetic \cup Digits
    THEN Error("ContainsForbiddenCharacter", <<>>)
    ELSE Ok(container_id)

\* CniContainerId::new
CniContainerIdNew(container_id) ==
    IF Trim(container_id) = <<>> THEN Error("IsEmptyOrBlank", <<>>)
    ELSE IF container_id[1] \notin Alphabetic THEN Error("FirstIsNotAlphabetic", <<>>)
    ELSE IF \E i \in 1..Len(container_id) :
                container_id[i] \notin Alphabetic \cup Digits \cup {".", "_", "-"}
    THEN Error("ContainsForbiddenCharacter", <<>>)
    ELSE Ok(container_id)

\* CniInterfaceName::new with `>=` in the test of the length
CniInterfaceNameNewBelowMaximum(interface_name) ==
    IF Trim(interface_name) = <<>> THEN Error("IsEmptyOrBlank", <<>>)
    ELSE IF Len(interface_name) >= IFNAME_MAX_LENGTH
    THEN Error("TooLong", [maximum_allowed |-> IFNAME_MAX_LENGTH])
    ELSE IF interface_name \in {<<".">>, <<".", ".">>} THEN Error("IsForbiddenValue", <<>>)
    ELSE IF \E i \in 1..Len(interface_name) : interface_name[i] \in {" ", ":", "/"}
    THEN Error("ContainsForbiddenCharacter", <<>>)
    ELSE Ok(interface_name)

\* CniInterfaceName::new
CniInterfaceNameNew(interface_name) ==
    IF Trim(interface_name) = <<>> THEN Error("IsEmptyOrBlank", <<>>)
    ELSE IF Len(interface_name) > IFNAME_MAX_LENGTH
    THEN Error("TooLong", [maximum_allowed |-> IFNAME_MAX_LENGTH])
    ELSE IF interface_name \in {<<".">>, <<".", ".">>} THEN Error("IsForbiddenValue", <<>>)
    ELSE IF \E i \in 1..Len(interface_name) : interface_name[i] \in {" ", ":", "/"}
    THEN Error("ContainsForbiddenCharacter", <<>>)
    ELSE Ok(interface_name)

\* the texts handed to the constructors: every text of at most three bytes
\* of names, every text of at most five bytes of versions, versions with a
\* sign, leading zeros and components around u8::MAX, and runs of one byte
\* around IFNAME_MAX_LENGTH
Texts ==
    LET upTo(n, bytes) == UNION {[1..k -> bytes] : k \in 0..n}
    IN  upTo(3, {"a", "N", "1", " ", "\t", ".", "_", "-", ":", "/"})
        \cup upTo(5, {"1", ".", "a"})
        \cup {<<"1", ".", "0", ".", "0">>, <<"+", "1", ".", "0", ".", "0">>,
              <<"1", ".", "+", "0", ".", "0">>, <<"0", "1", ".", "0", ".", "0">>,
              <<"2", "5", "5", ".", "0", ".", "0">>, <<"2", "5", "6", ".", "0", ".", "0">>,
              <<"0", ".", "4", ".", "0">>, <<"0", ".", "0", ".", "0", ".", "0">>,
              <<"1", ".", "0", ".", "0", " ">>, <<"-", "1", ".", "0", ".", "0">>}
        \cup {[i \in 1..n |-> c] : n \in 14..17, c \in {"a", " ", ":", "."}}
        \cup {[i \in 1..n |-> IF i = n THEN "/" ELSE "a"] : n \in 15..16}

InitTypes ==
    /\ WalkIdle
    /\ CodecIdle
    /\ InvokerIdle
    /\ LocatorIdle
    /\ value_type \in {"CniContainerId", "CniName", "CniInterfaceName", "CniVersion"}
    /\ raw \in Texts
    /\ validated = None

\* CniContainerId::new, CniName::new, CniInterfaceName::new or
\* CniVersion::parse is called on the text
New ==
    /\ validated = None
    /\ validated' = Some([via |-> "new",
                          result |-> CASE value_type = "CniContainerId" -> CniContainerIdNew(raw)
                                       [] value_type = "CniName" -> CniNameNew(raw)
                                       [] value_type = "CniInterfaceName" -> CniInterfaceNameNew(raw)
                                       [] value_type = "CniVersion" -> CniVersionParse(raw)])
    /\ UNCHANGED <<value_type, raw>>
    /\ UNCHANGED <<walkVars, codecVars, invokerVars, locatorVars>>

\* #[derive(Deserialize)] on the tuple struct CniVersion(String): serde takes
\* the JSON string as the field, CniVersion::parse is not called
Deserialize ==
    /\ value_type = "CniVersion"
    /\ validated = None
    /\ validated' = Some([via |-> "deserialize", result |-> Ok(raw)])
    /\ UNCHANGED <<value_type, raw>>
    /\ UNCHANGED <<walkVars, codecVars, invokerVars, locatorVars>>

NextTypes == New \/ Deserialize

SpecTypes == InitTypes /\ [][NextTypes]_vars

\* the constructor of `type` has returned
Constructed(type) ==
    /\ value_type = type
    /\ IsSome(validated)
    /\ Unwrap(validated).via = "new"

Blank(text) == \A i \in 1..Len(text) : text[i] \in {" ", "\t", "\n"}

\* C32: CniInterfaceName::new accepts exactly the texts that are not blank,
\* are at most 15 bytes long, are neither "." nor ".." and hold no space, ':'
\* or '/'; the error is that of the first failing test in the order
\* IsEmptyOrBlank, TooLong with maximum 15, IsForbiddenValue,
\* ContainsForbiddenCharacter, and the value accepted is the text unchanged
C32_InterfaceName ==
    Constructed("CniInterfaceName") =>
        LET r == Unwrap(validated).result
        IN  IF Blank(raw) THEN r = Error("IsEmptyOrBlank", <<>>)
            ELSE IF Len(raw) > 15 THEN r = Error("TooLong", [maximum_allowed |-> 15])
            ELSE IF raw = <<".">> \/ raw = <<".", ".">> THEN r = Error("IsForbiddenValue", <<>>)
            ELSE IF \E i \in 1..Len(raw) : raw[i] = " " \/ raw[i] = ":" \/ raw[i] = "/"
            THEN r = Error("ContainsForbiddenCharacter", <<>>)
            ELSE r = Ok(raw)

\* a name of exactly 15 bytes is accepted
C32_Witness ==
    /\ Constructed("CniInterfaceName")
    /\ Len(raw) = 15
    /\ Unwrap(validated).result = Ok(raw)


Letter(byte) == byte \in {"a", "b", "e", "n", "p", "t", "x", "N"}

Digit(byte) == byte \in {"0", "1", "2", "3", "4", "5", "6", "7", "8", "9"}

\* C34: CniContainerId::new accepts exactly the texts that are not blank,
\* start with an ASCII letter and hold only ASCII letters, digits, '.', '_'
\* and '-'; the error is that of the first failing test in the order
\* IsEmptyOrBlank, FirstIsNotAlphabetic, ContainsForbiddenCharacter, and the
\* value accepted is the text unchanged
C34_ContainerId ==
    Constructed("CniContainerId") =>
        LET r == Unwrap(validated).result
        IN  IF Blank(raw) THEN r = Error("IsEmptyOrBlank", <<>>)
            ELSE IF ~Letter(raw[1]) THEN r = Error("FirstIsNotAlphabetic", <<>>)
            ELSE IF \E i \in 1..Len(raw) :
                        ~(Letter(raw[i]) \/ Digit(raw[i]) \/ raw[i] \in {".", "_", "-"})
            THEN r = Error("ContainsForbiddenCharacter", <<>>)
            ELSE r = Ok(raw)

\* an identifier with '.', '_' or '-' after its first letter is accepted
C34_Witness ==
    /\ Constructed("CniContainerId")
    /\ \E i \in 2..Len(raw) : raw[i] \in {".", "_", "-"}
    /\ Unwrap(validated).result = Ok(raw)

\* C35: CniName::new accepts exactly the texts that are not blank, start with
\* an ASCII letter and hold only ASCII letters and digits; the error is that
\* of the first failing test in the order IsEmptyOrBlank,
\* FirstIsNotAlphabetic, ContainsForbiddenCharacter, and the value accepted
\* is the text unchanged
C35_Name ==
    Constructed("CniName") =>
        LET r == Unwrap(validated).result
        IN  IF Blank(raw) THEN r = Error("IsEmptyOrBlank", <<>>)
            ELSE IF ~Letter(raw[1]) THEN r = Error("FirstIsNotAlphabetic", <<>>)
            ELSE IF \E i \in 1..Len(raw) : ~(Letter(raw[i]) \/ Digit(raw[i]))
            THEN r = Error("ContainsForbiddenCharacter", <<>>)
            ELSE r = Ok(raw)

\* a name that starts with a letter and holds '.', '_' or '-' is refused
C35_Witness ==
    /\ Constructed("CniName")
    /\ raw # <<>> /\ Letter(raw[1])
    /\ \E i \in 2..Len(raw) : raw[i] \in {".", "_", "-"}
    /\ Unwrap(validated).result = Error("ContainsForbiddenCharacter", <<>>)


\* a decimal numeral of an unsigned 8-bit integer: digits only, value 0..255
DecimalU8(part) ==
    /\ part # <<>>
    /\ \A i \in 1..Len(part) : Digit(part[i])
    /\ DecimalValue(part) <= 255

\* C33: CniVersion::parse accepts exactly the texts made of three parts
\* separated by dots, each the decimal numeral of an unsigned 8-bit integer,
\* and returns the version of their values; another number of parts fails
\* with IncorrectSplitAmount, a part that is no such numeral with
\* SplitNotParseable
C33_VersionParse ==
    Constructed("CniVersion") =>
        LET r == Unwrap(validated).result
            parts == Split(raw, ".")
        IN  IF Len(parts) # 3 THEN r = Error("IncorrectSplitAmount", <<>>)
            ELSE IF \E i \in 1..3 : ~DecimalU8(parts[i])
            THEN r = Error("SplitNotParseable", <<>>)
            ELSE r = Ok(CniVersionNew(DecimalValue(parts[1]), DecimalValue(parts[2]),
                                      DecimalValue(parts[3])))

\* C33 for the texts that hold no sign
C33_Unsigned ==
    (\A i \in 1..Len(raw) : raw[i] # "+") => C33_VersionParse

\* the canonical text MAJOR.MINOR.PATCH of three components 0..255
Canonical(version) ==
    LET parts == Split(version, ".")
    IN  /\ Len(parts) = 3
        /\ \A i \in 1..3 : /\ DecimalU8(parts[i])
                           /\ FormatU8(DecimalValue(parts[i])) = parts[i]

\* C36: every CniVersion value, whether made by CniVersion::parse or decoded
\* from the cniVersion or supportedVersions of a plugin's output, holds a
\* canonical MAJOR.MINOR.PATCH text with components 0..255
C36_CanonicalVersion ==
    (/\ value_type = "CniVersion"
     /\ IsSome(validated)
     /\ Unwrap(validated).result.tag = "Ok")
        => Canonical(Unwrap(validated).result.value)

\* C36 for the values made by CniVersion::parse
C36_Parsed ==
    Constructed("CniVersion") => C36_CanonicalVersion


----------------------------------------------------------------------------
(* Termination of invoke.  Every step of the walk is the return of a call  *)
(* to the locator or the executor, or code of invoke that runs to the next *)
(* call; when every call returns, a step that is possible is taken.        *)

SpecLive == Spec /\ WF_vars(Next)

\* position p of the list occurs exactly once in the calls
OnceIn(calls, p) == Cardinality({i \in 1..Len(calls) : calls[i] = p}) = 1

\* C37: when every locator call and every executor call returns, invoke on a
\* list of N plugins returns: it makes at most N locator calls and at most N
\* executor calls, it returns Ok only after N executor calls, one for each
\* plugin, and it returns Err at the first plugin that fails, with no call
\* after that plugin's
C37_Terminates ==
    /\ [](/\ Len(located) <= Len(target.plugins)
          /\ Len(executed) <= Len(target.plugins))
    /\ []((pc = "done" /\ ret.tag = "Ok") =>
            /\ Len(executed) = Len(target.plugins)
            /\ \A p \in 1..Len(target.plugins) : OnceIn(executed, p)
            /\ failed = None)
    /\ []((pc = "done" /\ ret.tag = "Err") =>
            /\ IsSome(failed)
            /\ located[Len(located)] = Unwrap(failed).position
            /\ NoDuplicates(located)
            /\ executed \in {located, SubSeq(located, 1, Len(located) - 1)})
    /\ [](pc = "done" => ret.tag \in {"Ok", "Err"})
    /\ <>(pc = "done")

\* a walk of a full list that returned Ok after as many executor calls as
\* the list has plugins
C37_Witness ==
    /\ pc = "done" /\ ret.tag = "Ok"
    /\ target.kind = "PluginList" /\ Len(target.plugins) = MaxPlugins
    /\ Len(located) = MaxPlugins /\ Len(executed) = MaxPlugins

====
